---- MODULE Spec2Model ----
(***************************************************************************)
(* Model of the ebbinghaus-vocabulary progress store, scheduler service,   *)
(* word loader merge and progress storage service.                         *)
(*                                                                         *)
(* Timestamps are held in seconds instead of milliseconds so that they fit *)
(* TLC's 32-bit integers; a date string "YYYY-MM-DD" is held as its number *)
(* of days since the epoch, and the empty string '' as EmptyDate.          *)
(***************************************************************************)
EXTENDS Integers, Sequences, FiniteSets, TLC

VARIABLES
  now,                 \* Date.now()
  tz,                  \* offset of local time from UTC, in seconds
  storageAvailable,    \* outcome of ProgressService.isStorageAvailable()
  quotaExceeded,       \* localStorage.setItem(STORAGE_KEY, ..) throws
  localStorage,        \* localStorage.getItem(STORAGE_KEY): NULL or a text
  progressList,        \* progress store: progressList
  streakDays,          \* progress store: streakDays
  lastStudyDate,       \* progress store: lastStudyDate
  dailyReviews,        \* progress store: dailyReviews
  reviewQueue,         \* progress store: reviewQueue
  currentReviewIndex,  \* progress store: currentReviewIndex (0-based)
  todayReviewedCount,  \* progress store: todayReviewedCount
  words,               \* vocabulary store: words
  lastOp,              \* history: the last operation, its argument and result
  hist,                \* history of the running session
  graded               \* history: number of gradings applied so far

vars == << now, tz, storageAvailable, quotaExceeded, localStorage, progressList, streakDays,
           lastStudyDate, dailyReviews, reviewQueue, currentReviewIndex,
           todayReviewedCount, words, lastOp, hist, graded >>

storeVars == << progressList, streakDays, lastStudyDate, dailyReviews,
                reviewQueue, currentReviewIndex, todayReviewedCount >>

-----------------------------------------------------------------------------
(* Bounds of the model *)

MaxQueue == 4        \* handleForget is not taken once the queue is this long
MaxGraded == 4       \* gradings applied in one run
MaxWords == 3        \* length of the lists handed to the scheduler's list functions
MaxHistory == 8      \* gradings of one entry in the grading histories

-----------------------------------------------------------------------------
(* Values *)

NULL == << >>
Undefined == 0 - 1   \* an absent optional number (lastReviewedAt)
EmptyDate == 0       \* the empty date string ''
EmptyMap == [d \in {} |-> 0]

DAY_MS == 24 * 60 * 60

REVIEW_INTERVALS == (0 :> 1) @@ (1 :> 1) @@ (2 :> 2) @@ (3 :> 4) @@ (4 :> 7)
                    @@ (5 :> 15) @@ (6 :> 30)

CURRENT_VERSION == 1

DEFAULT_SETTINGS == [voiceType |-> "en-US"]

TimeZones == {8 * 60 * 60}
SchedulerTimeZones == {0 - 4 * 60 * 60, 0, 8 * 60 * 60}

\* Zones that observe daylight saving time: their clocks go back by one hour
\* at the instant DstEnd (02:00 local time on day 3 for the zone at -4 h).
DstZones == {0 - 4 * 60 * 60}
DstEnd == 3 * DAY_MS + 6 * 60 * 60

\* The catalog files src/data/words/<date>.json, flattened in file order.
Catalog == << [raw |-> [word |-> "a", meaning |-> "ma"], date |-> 1],
              [raw |-> [word |-> "b", meaning |-> "mb"], date |-> 2] >>

\* The instant of a run of the store, and the last instant of the clock where
\* it moves (in steps of half a day).
FirstInstant == 2 * DAY_MS + 10 * 60 * 60
LastInstant == FirstInstant + 2 * DAY_MS

\* How often the first catalog word was graded "remember" in an earlier run.
PriorRemembers == {0, 6}

-----------------------------------------------------------------------------
(* services/scheduler.ts *)

\* Offset of local time from UTC at the instant t (Date's local-time rules).
utcOffset(t) == IF tz \in DstZones /\ t >= DstEnd THEN tz - 60 * 60 ELSE tz

\* The instant at which local day number day begins: new Date(y, m, d) and
\* setHours(0, 0, 0, 0).
localMidnight(day) ==
  IF tz \in DstZones /\ day * DAY_MS - tz >= DstEnd
  THEN day * DAY_MS - (tz - 60 * 60)
  ELSE day * DAY_MS - tz

\* The number of the local day that the instant t lies in.
localDay(t) == (t + utcOffset(t)) \div DAY_MS

getStartOfDay(timestamp) == localMidnight(localDay(timestamp))

\* setHours(23, 59, 59, 999): the last instant before the next local midnight
getEndOfDay(timestamp) == localMidnight(localDay(timestamp) + 1) - 1

parseDateString(dateStr) == localMidnight(dateStr)

calculateNextReview(currentStage, baseTime) ==
  getStartOfDay(baseTime) + REVIEW_INTERVALS[currentStage] * DAY_MS

\* Mutant: reaching stage 6 already counts as mastered.
schedulerService_handleRemember_mastersAtSix(word) ==
  IF word.reviewStage = 6
  THEN [id |-> word.id, reviewStage |-> 6, nextReviewAt |-> word.nextReviewAt,
        memoryStatus |-> "mastered", lastReviewedAt |-> now]
  ELSE [id |-> word.id, reviewStage |-> word.reviewStage + 1,
        nextReviewAt |-> calculateNextReview(word.reviewStage + 1, now),
        memoryStatus |-> IF word.reviewStage + 1 = 6 THEN "mastered"
                         ELSE "learning",
        lastReviewedAt |-> now]

\* Mutant: a word at stage 6 is scheduled again, 30 days on.
schedulerService_handleRemember_reschedulesAtSix(word) ==
  IF word.reviewStage = 6
  THEN [id |-> word.id, reviewStage |-> 6,
        nextReviewAt |-> getStartOfDay(now) + REVIEW_INTERVALS[6] * DAY_MS,
        memoryStatus |-> "mastered", lastReviewedAt |-> now]
  ELSE [id |-> word.id, reviewStage |-> word.reviewStage + 1,
        nextReviewAt |-> getStartOfDay(now)
                           + REVIEW_INTERVALS[word.reviewStage + 1] * DAY_MS,
        memoryStatus |-> "learning", lastReviewedAt |-> now]

schedulerService_handleRemember(word) ==
  IF word.reviewStage = 6
  THEN [id |-> word.id, reviewStage |-> 6, nextReviewAt |-> word.nextReviewAt,
        memoryStatus |-> "mastered", lastReviewedAt |-> now]
  ELSE [id |-> word.id, reviewStage |-> word.reviewStage + 1,
        nextReviewAt |-> calculateNextReview(word.reviewStage + 1, now),
        memoryStatus |-> "learning", lastReviewedAt |-> now]

\* Mutant: a mastered word stays mastered when it is forgotten.
schedulerService_handleForget_keepsMastered(word) ==
  [id |-> word.id, reviewStage |-> 1,
   nextReviewAt |-> getStartOfDay(now) + REVIEW_INTERVALS[1] * DAY_MS,
   memoryStatus |-> IF word.memoryStatus = "mastered" THEN "mastered"
                    ELSE "learning",
   lastReviewedAt |-> now]

schedulerService_handleForget(word) ==
  [id |-> word.id, reviewStage |-> 1,
   nextReviewAt |-> calculateNextReview(1, now),
   memoryStatus |-> "learning", lastReviewedAt |-> now]

\* Mutant: mastered words are selected as well.
getTodayReviewWords_includesMastered(ws) ==
  SelectSeq(ws, LAMBDA word : word.nextReviewAt <= getEndOfDay(now))

getTodayReviewWords(ws) ==
  SelectSeq(ws, LAMBDA word : /\ word.memoryStatus # "mastered"
                              /\ word.nextReviewAt <= getEndOfDay(now))

getPriority(word) ==
  IF word.nextReviewAt < getStartOfDay(now) THEN 0
  ELSE IF word.nextReviewAt <= getEndOfDay(now) THEN 1
  ELSE 2

compareUrgency(a, b) ==
  IF getPriority(a) # getPriority(b)
  THEN getPriority(a) - getPriority(b)
  ELSE a.nextReviewAt - b.nextReviewAt

\* Mutant: an element goes in front of the elements it compares equal to.
RECURSIVE insertStable_beforeEquals(_, _)
insertStable_beforeEquals(sorted, x) ==
  IF sorted = << >> THEN << x >>
  ELSE IF compareUrgency(sorted[Len(sorted)], x) < 0
       THEN Append(sorted, x)
       ELSE Append(insertStable_beforeEquals(
                     SubSeq(sorted, 1, Len(sorted) - 1), x),
                   sorted[Len(sorted)])

\* Array.prototype.sort is stable: an element goes behind every element that
\* does not compare greater than it.
RECURSIVE insertStable(_, _)
insertStable(sorted, x) ==
  IF sorted = << >> THEN << x >>
  ELSE IF compareUrgency(sorted[Len(sorted)], x) <= 0
       THEN Append(sorted, x)
       ELSE Append(insertStable(SubSeq(sorted, 1, Len(sorted) - 1), x),
                   sorted[Len(sorted)])

RECURSIVE sortByUrgency(_)
sortByUrgency(ws) ==
  IF ws = << >> THEN << >>
  ELSE insertStable(sortByUrgency(SubSeq(ws, 1, Len(ws) - 1)), ws[Len(ws)])

\* Mutant: the first review is one day after the word was added.
calculateInitialReview_nextDay(addedDate) ==
  getStartOfDay(parseDateString(addedDate)) + DAY_MS

calculateInitialReview(addedDate) == getStartOfDay(parseDateString(addedDate))

-----------------------------------------------------------------------------
(* services/wordLoader.ts *)

generateWordId(date, word) == << date, word >>

createWordEntry(rawWord, addedDate) ==
  [id |-> generateWordId(addedDate, rawWord.word),
   word |-> rawWord.word,
   meaning |-> rawWord.meaning,
   addedDate |-> addedDate,
   reviewStage |-> 0,
   nextReviewAt |-> calculateInitialReview(addedDate),
   memoryStatus |-> "new",
   lastReviewedAt |-> Undefined]

\* record.f, undefined when the record has no such field
fieldOf(record, f) == IF f \in DOMAIN record THEN record[f] ELSE Undefined

\* progressMap.get(id) after progressMap.set(p.id, p) for every p in order:
\* the last record of the list with that id, or NULL.
\* Mutant: the first record of the list with that id.
progressMapGet_firstWins(progress, id) ==
  IF \A k \in DOMAIN progress : fieldOf(progress[k], "id") # id THEN NULL
  ELSE progress[CHOOSE k \in DOMAIN progress :
                  /\ fieldOf(progress[k], "id") = id
                  /\ \A j \in 1..(k - 1) : fieldOf(progress[j], "id") # id]

RECURSIVE progressMapGet(_, _)
progressMapGet(progress, id) ==
  IF progress = << >> THEN NULL
  ELSE IF fieldOf(progress[Len(progress)], "id") = id
       THEN progress[Len(progress)]
  ELSE progressMapGet(SubSeq(progress, 1, Len(progress) - 1), id)

\* Mutant: the status of the stored record is not taken over.
mergeWithProgress_keepsNew(ws, progress) ==
  [i \in 1..Len(ws) |->
     LET id == generateWordId(ws[i].date, ws[i].raw.word)
         existingProgress == progressMapGet(progress, id)
     IN IF existingProgress # NULL
        THEN [id |-> id,
              word |-> ws[i].raw.word,
              meaning |-> ws[i].raw.meaning,
              addedDate |-> ws[i].date,
              reviewStage |-> fieldOf(existingProgress, "reviewStage"),
              nextReviewAt |-> fieldOf(existingProgress, "nextReviewAt"),
              memoryStatus |-> "new",
              lastReviewedAt |-> fieldOf(existingProgress, "lastReviewedAt")]
        ELSE createWordEntry(ws[i].raw, ws[i].date)]

mergeWithProgress(ws, progress) ==
  [i \in 1..Len(ws) |->
     LET id == generateWordId(ws[i].date, ws[i].raw.word)
         existingProgress == progressMapGet(progress, id)
     IN IF existingProgress # NULL
        THEN [id |-> id,
              word |-> ws[i].raw.word,
              meaning |-> ws[i].raw.meaning,
              addedDate |-> ws[i].date,
              reviewStage |-> fieldOf(existingProgress, "reviewStage"),
              nextReviewAt |-> fieldOf(existingProgress, "nextReviewAt"),
              memoryStatus |-> fieldOf(existingProgress, "memoryStatus"),
              lastReviewedAt |-> fieldOf(existingProgress, "lastReviewedAt")]
        ELSE createWordEntry(ws[i].raw, ws[i].date)]

loadAllWordsWithProgress(progress) == mergeWithProgress(Catalog, progress)

-----------------------------------------------------------------------------
(* services/progress.ts *)

JSON_stringify(data) == [json |-> data]

JSON_parse(text) == text.json

\* JSON.parse(text) throws a SyntaxError: text is no JSON text.
isNotJson(text) == "json" \notin DOMAIN text

\* A field of the values checked here is either absent (typeof undefined) or
\* of the type the code tests for, so each typeof test is a test of presence;
\* the elements of progress and the fields of settings are not looked at.
isValidProgressData(data) ==
  /\ data # NULL
  /\ "version" \in DOMAIN data
  /\ "progress" \in DOMAIN data
  /\ "stats" \in DOMAIN data
  /\ "streakDays" \in DOMAIN data.stats
  /\ "lastStudyDate" \in DOMAIN data.stats
  /\ "dailyReviews" \in DOMAIN data.stats
  /\ "settings" \in DOMAIN data

progressService_load ==
  IF ~storageAvailable THEN NULL
  ELSE IF localStorage = NULL THEN NULL
  ELSE IF isNotJson(localStorage) THEN NULL
  ELSE IF ~isValidProgressData(JSON_parse(localStorage)) THEN NULL
  ELSE JSON_parse(localStorage)

\* part_001 createDefaultProgressData
createDefaultProgressData ==
  [version |-> CURRENT_VERSION,
   progress |-> << >>,
   stats |-> [streakDays |-> 0, lastStudyDate |-> EmptyDate,
              dailyReviews |-> EmptyMap],
   settings |-> DEFAULT_SETTINGS]

\* Mutant: a write that fails has replaced the stored text all the same.
progressService_save_writesOnFailure(data) ==
  IF ~storageAvailable THEN [ok |-> FALSE, storage |-> localStorage]
  ELSE IF quotaExceeded THEN [ok |-> FALSE, storage |-> JSON_stringify(data)]
  ELSE [ok |-> TRUE, storage |-> JSON_stringify(data)]

\* The result of save(data) and the value of localStorage after it.
progressService_save(data) ==
  IF ~storageAvailable THEN [ok |-> FALSE, storage |-> localStorage]
  ELSE IF quotaExceeded THEN [ok |-> FALSE, storage |-> localStorage]
  ELSE [ok |-> TRUE, storage |-> JSON_stringify(data)]

progressService_reset ==
  IF ~storageAvailable THEN [ok |-> FALSE, storage |-> localStorage]
  ELSE [ok |-> TRUE, storage |-> NULL]

\* Mutant: the settings are not read from the store.
progressService_getSettings_defaults == DEFAULT_SETTINGS

\* progressService.getSettings()
progressService_getSettings ==
  IF progressService_load # NULL THEN progressService_load.settings
  ELSE DEFAULT_SETTINGS

\* delete data.exportedAt; delete data.exportVersion
deleteExportFields(data) ==
  [f \in DOMAIN data \ {"exportedAt", "exportVersion"} |-> data[f]]

\* Mutant: the data is saved before it is validated.
progressService_importData_savesFirst(jsonString) ==
  IF isNotJson(jsonString)
  THEN [success |-> FALSE, storage |-> localStorage]
  ELSE [success |->
          /\ isValidProgressData(deleteExportFields(JSON_parse(jsonString)))
          /\ progressService_save(
               deleteExportFields(JSON_parse(jsonString))).ok,
        storage |->
          progressService_save(
            deleteExportFields(JSON_parse(jsonString))).storage]

\* Mutant: the export fields are left in the data that is saved.
progressService_importData_keepsExportFields(jsonString) ==
  IF isNotJson(jsonString)
  THEN [success |-> FALSE, storage |-> localStorage]
  ELSE IF ~isValidProgressData(deleteExportFields(JSON_parse(jsonString)))
  THEN [success |-> FALSE, storage |-> localStorage]
  ELSE [success |-> progressService_save(JSON_parse(jsonString)).ok,
        storage |-> progressService_save(JSON_parse(jsonString)).storage]

\* The result of importData(jsonString) and the value of localStorage after it.
progressService_importData(jsonString) ==
  IF isNotJson(jsonString)
  THEN [success |-> FALSE, storage |-> localStorage]
  ELSE IF ~isValidProgressData(deleteExportFields(JSON_parse(jsonString)))
  THEN [success |-> FALSE, storage |-> localStorage]
  ELSE [success |->
          progressService_save(
            deleteExportFields(JSON_parse(jsonString))).ok,
        storage |->
          progressService_save(
            deleteExportFields(JSON_parse(jsonString))).storage]

\* part_001 isCompleteWordProgress: the typeof checks, as field presence
isCompleteWordProgress(progress) ==
  {"id", "reviewStage", "nextReviewAt", "memoryStatus"} \subseteq DOMAIN progress

\* part_001 updateStreakDays(data, today): the data with its stats updated
progressService_updateStreakDays(data, today) ==
  IF data.stats.lastStudyDate = EmptyDate
  THEN [data EXCEPT !.stats.streakDays = 1, !.stats.lastStudyDate = today]
  ELSE IF data.stats.lastStudyDate = today THEN data
  ELSE IF today - data.stats.lastStudyDate = 1
       THEN [data EXCEPT !.stats.streakDays = @ + 1,
                         !.stats.lastStudyDate = today]
       ELSE [data EXCEPT !.stats.streakDays = 1,
                         !.stats.lastStudyDate = today]

\* { ...existing, ...progress, id: wordId }
mergedProgress(existing, progress, wordId) ==
  [f \in DOMAIN existing \cup DOMAIN progress \cup {"id"} |->
     IF f = "id" THEN wordId
     ELSE IF f \in DOMAIN progress THEN progress[f]
     ELSE existing[f]]

\* p => p.id === wordId, on the records of a stored list: the first index
\* with that id, 0 if there is none
RECURSIVE indexOfId(_, _)
indexOfId(list, wordId) ==
  IF list = << >> THEN 0
  ELSE IF indexOfId(SubSeq(list, 1, Len(list) - 1), wordId) # 0
       THEN indexOfId(SubSeq(list, 1, Len(list) - 1), wordId)
       ELSE IF "id" \in DOMAIN list[Len(list)] /\ list[Len(list)].id = wordId
            THEN Len(list) ELSE 0

\* data.stats.dailyReviews[today] = (data.stats.dailyReviews[today] || 0) + 1
countedToday(data, today) ==
  [data EXCEPT !.stats.dailyReviews =
     [d \in DOMAIN data.stats.dailyReviews \cup {today} |->
        IF d = today
        THEN (IF today \in DOMAIN data.stats.dailyReviews
              THEN data.stats.dailyReviews[today] ELSE 0) + 1
        ELSE data.stats.dailyReviews[d]]]

\* Mutant: the id of the given fields replaces the id of the stored record.
updatedProgressData_takesId(data, wordId, progress) ==
  IF indexOfId(data.progress, wordId) # 0
  THEN [data EXCEPT !.progress[indexOfId(data.progress, wordId)] =
          [f \in DOMAIN @ \cup DOMAIN progress |->
             IF f \in DOMAIN progress THEN progress[f] ELSE @[f]]]
  ELSE [data EXCEPT !.progress =
          Append(@, mergedProgress(progress, progress, wordId))]

\* updateWordProgress: the data with the record of wordId merged or appended
updatedProgressData(data, wordId, progress) ==
  IF indexOfId(data.progress, wordId) # 0
  THEN [data EXCEPT !.progress[indexOfId(data.progress, wordId)] =
          mergedProgress(@, progress, wordId)]
  ELSE [data EXCEPT !.progress =
          Append(@, mergedProgress(progress, progress, wordId))]

\* The result of updateWordProgress(wordId, progress) and the value of
\* localStorage after it.
progressService_updateWordProgress(wordId, progress) ==
  LET data == IF progressService_load # NULL THEN progressService_load
              ELSE createDefaultProgressData
      today == now \div DAY_MS
  IN IF indexOfId(data.progress, wordId) = 0
        /\ ~isCompleteWordProgress(progress)
     THEN [ok |-> FALSE, storage |-> localStorage]
     ELSE progressService_save(
            progressService_updateStreakDays(
              countedToday(updatedProgressData(data, wordId, progress), today),
              today))

\* { ...data, exportedAt: Date.now(), exportVersion: CURRENT_VERSION }
exportFields(data) ==
  [f \in DOMAIN data \cup {"exportedAt", "exportVersion"} |->
     IF f = "exportedAt" THEN now
     ELSE IF f = "exportVersion" THEN CURRENT_VERSION
     ELSE data[f]]

\* exportData(): NULL without a loadable snapshot, else the text
progressService_exportData ==
  IF progressService_load = NULL THEN NULL
  ELSE JSON_stringify(exportFields(progressService_load))

-----------------------------------------------------------------------------
(* stores/progress.ts: getters and helpers *)

currentWord ==
  IF Len(reviewQueue) = 0 THEN NULL
  ELSE IF currentReviewIndex >= Len(reviewQueue) THEN NULL
  ELSE reviewQueue[currentReviewIndex + 1]

hasMoreWords == currentReviewIndex < Len(reviewQueue)

\* Mutant: the check that a queue was built is left out.
isReviewComplete_noLengthCheck == currentReviewIndex >= Len(reviewQueue)

isReviewComplete ==
  Len(reviewQueue) > 0 /\ currentReviewIndex >= Len(reviewQueue)

\* The states of a review session (spec 4.3), from the store's getters.
sessionState ==
  IF Len(reviewQueue) = 0 THEN "Empty"
  ELSE IF currentReviewIndex < Len(reviewQueue) THEN "InProgress"
  ELSE "Complete"

getTodayDateString == now \div DAY_MS

\* dailyReviews.value[date] || 0
countOf(reviews, date) == IF date \in DOMAIN reviews THEN reviews[date] ELSE 0

RECURSIVE findIndex(_, _)
findIndex(list, id) ==
  IF list = << >> THEN 0
  ELSE IF findIndex(SubSeq(list, 1, Len(list) - 1), id) # 0
       THEN findIndex(SubSeq(list, 1, Len(list) - 1), id)
       ELSE IF list[Len(list)].id = id THEN Len(list) ELSE 0

\* Mutant: the record is pushed whether or not the list has one with its id.
updateProgressList_alwaysPushes(list, progress) == Append(list, progress)

\* stores/progress.ts updateProgressList
updateProgressList(list, progress) ==
  IF findIndex(list, progress.id) # 0
  THEN [list EXCEPT ![findIndex(list, progress.id)] = progress]
  ELSE Append(list, progress)

\* Mutant: a grading after a gap goes on counting the streak.
updateStreakDays_countsOverGaps(stats, today) ==
  IF stats.lastStudyDate = EmptyDate
  THEN [stats EXCEPT !.streakDays = 1, !.lastStudyDate = today]
  ELSE IF stats.lastStudyDate = today THEN stats
  ELSE IF today - stats.lastStudyDate >= 1
       THEN [stats EXCEPT !.streakDays = @ + 1, !.lastStudyDate = today]
       ELSE [stats EXCEPT !.streakDays = 1, !.lastStudyDate = today]

\* Mutant: lastStudyDate is assigned by the first grading only.
updateStreakDays_keepsDate(stats, today) ==
  IF stats.lastStudyDate = EmptyDate
  THEN [stats EXCEPT !.streakDays = 1, !.lastStudyDate = today]
  ELSE IF stats.lastStudyDate = today THEN stats
  ELSE IF today - stats.lastStudyDate = 1
       THEN [stats EXCEPT !.streakDays = @ + 1]
       ELSE [stats EXCEPT !.streakDays = 1]

\* stores/progress.ts updateStreakDays(today), on the stats it is given
updateStreakDays(stats, today) ==
  IF stats.lastStudyDate = EmptyDate
  THEN [stats EXCEPT !.streakDays = 1, !.lastStudyDate = today]
  ELSE IF stats.lastStudyDate = today THEN stats
  ELSE IF today - stats.lastStudyDate = 1
       THEN [stats EXCEPT !.streakDays = @ + 1, !.lastStudyDate = today]
       ELSE [stats EXCEPT !.streakDays = 1, !.lastStudyDate = today]

updateStats(stats) ==
  LET today == getTodayDateString
      counted == [d \in DOMAIN stats.dailyReviews \cup {today} |->
                    IF d = today THEN countOf(stats.dailyReviews, today) + 1
                    ELSE stats.dailyReviews[d]]
  IN updateStreakDays([stats EXCEPT !.dailyReviews = counted], today)

currentStats ==
  [streakDays |-> streakDays, lastStudyDate |-> lastStudyDate,
   dailyReviews |-> dailyReviews]

\* The snapshot saveProgress() builds from the given list and stats.
progressData(list, stats) ==
  [version |-> 1, progress |-> list, stats |-> stats,
   settings |-> progressService_getSettings]

\* vocabulary store: updateWord after getWordById found the graded word
updateWord(ws, result) ==
  IF findIndex(ws, result.id) = 0 THEN ws
  ELSE [ws EXCEPT ![findIndex(ws, result.id)] =
          [@ EXCEPT !.reviewStage = result.reviewStage,
                    !.nextReviewAt = result.nextReviewAt,
                    !.memoryStatus = result.memoryStatus,
                    !.lastReviewedAt = result.lastReviewedAt]]

-----------------------------------------------------------------------------
(* History of the running session (not program state) *)

\* Indices that have been the cursor while a word was there to present.
presentedWith(seen, queue, index) ==
  IF index < Len(queue) THEN seen \cup {index} ELSE seen

\* n0: length of the queue at startReview; gradings, forgets: gradings and
\* forgets applied since; skipped, restarted: skipCurrentWord moved the cursor,
\* restartReview was called; forgotAt: the indices handleForget was applied at.
newSession(queue) ==
  [n0 |-> Len(queue), gradings |-> 0, forgets |-> 0,
   skipped |-> FALSE, restarted |-> FALSE,
   presented |-> presentedWith({}, queue, 0),
   forgotAt |-> {}]

\* lastOp names the last startReview or grading, the state of the session it
\* was called in and what it returned; any other operation leaves "other".
op(name, before, ret) == [name |-> name, before |-> before, ret |-> ret]

otherOp == op("other", "-", NULL)

-----------------------------------------------------------------------------
(* Initial state *)

PriorInstant == 1 * DAY_MS + 10 * 60 * 60

RECURSIVE rememberTimes(_, _, _)
\* The record of word after k "remember" gradings at PriorInstant.
rememberTimes(word, k, zone) ==
  IF k = 0 THEN word
  ELSE LET w == rememberTimes(word, k - 1, zone)
           start == ((PriorInstant + zone) \div DAY_MS) * DAY_MS - zone
       IN IF w.reviewStage = 6
          THEN [w EXCEPT !.memoryStatus = "mastered"]
          ELSE [w EXCEPT !.reviewStage = @ + 1,
                         !.nextReviewAt =
                           start + REVIEW_INTERVALS[w.reviewStage + 1] * DAY_MS,
                         !.memoryStatus = "learning",
                         !.lastReviewedAt = PriorInstant]

\* What an earlier run of the application left in localStorage after grading
\* the first catalog word k times with "remember" on the day before.
priorStorage(k, zone) ==
  IF k = 0 THEN NULL
  ELSE LET w == rememberTimes([id |-> generateWordId(Catalog[1].date,
                                                     Catalog[1].raw.word),
                               reviewStage |-> 0,
                               nextReviewAt |-> Catalog[1].date * DAY_MS - zone,
                               memoryStatus |-> "new",
                               lastReviewedAt |-> Undefined], k, zone)
       IN JSON_stringify(
            [version |-> CURRENT_VERSION,
             progress |-> << w >>,
             stats |-> [streakDays |-> 1,
                        lastStudyDate |-> PriorInstant \div DAY_MS,
                        dailyReviews |-> ((PriorInstant \div DAY_MS) :> k)],
             settings |-> [voiceType |-> "en-GB"]])

Init ==
  /\ now = FirstInstant
  /\ tz \in TimeZones
  /\ storageAvailable \in BOOLEAN
  /\ quotaExceeded = FALSE
  /\ \E k \in PriorRemembers :
       /\ (~storageAvailable => k = 0)
       /\ localStorage = priorStorage(k, tz)
  /\ progressList = << >>
  /\ streakDays = 0
  /\ lastStudyDate = EmptyDate
  /\ dailyReviews = EmptyMap
  /\ reviewQueue = << >>
  /\ currentReviewIndex = 0
  /\ todayReviewedCount = 0
  /\ words = << >>
  /\ lastOp = otherOp
  /\ hist = newSession(<< >>)
  /\ graded = 0

-----------------------------------------------------------------------------
(* Operations *)

envVars == << now, tz, storageAvailable, quotaExceeded >>

\* Mutant: the daily counts of the snapshot are not taken over.
assignProgress_keepsDailyReviews(data) ==
  IF data # NULL
  THEN /\ progressList' = data.progress
       /\ streakDays' = data.stats.streakDays
       /\ lastStudyDate' = data.stats.lastStudyDate
       /\ dailyReviews' = dailyReviews
       /\ todayReviewedCount' = countOf(dailyReviews, getTodayDateString)
  ELSE /\ progressList' = << >>
       /\ streakDays' = 0
       /\ lastStudyDate' = EmptyDate
       /\ dailyReviews' = EmptyMap
       /\ todayReviewedCount' = 0

\* stores/progress.ts loadProgress, as the values it assigns when
\* progressService.load() returns data
assignProgress(data) ==
     IF data # NULL
     THEN /\ progressList' = data.progress
          /\ streakDays' = data.stats.streakDays
          /\ lastStudyDate' = data.stats.lastStudyDate
          /\ dailyReviews' = data.stats.dailyReviews
          /\ todayReviewedCount' =
               countOf(data.stats.dailyReviews, getTodayDateString)
     ELSE /\ progressList' = << >>
          /\ streakDays' = 0
          /\ lastStudyDate' = EmptyDate
          /\ dailyReviews' = EmptyMap
          /\ todayReviewedCount' = 0

\* stores/progress.ts loadProgress
loadProgress == assignProgress(progressService_load)

\* Mutant: loading the progress also puts the cursor back to the first word.
onMounted_resetsCursor ==
  /\ loadProgress
  /\ words' = loadAllWordsWithProgress(progressList')
  /\ currentReviewIndex' = 0
  /\ lastOp' = otherOp
  /\ UNCHANGED << envVars, localStorage, reviewQueue, hist, graded >>

\* pages/Home.vue onMounted: loadProgress(), then loadWords(progressList)
onMounted ==
  /\ loadProgress
  /\ words' = loadAllWordsWithProgress(progressList')
  /\ lastOp' = otherOp
  /\ UNCHANGED << envVars, localStorage, reviewQueue, currentReviewIndex,
                  hist, graded >>

\* Mutant: the cursor of the previous session is kept.
startReview_keepsCursor(input) ==
  /\ reviewQueue' = sortByUrgency(input)
  /\ currentReviewIndex' = currentReviewIndex
  /\ lastOp' = op("startReview", sessionState, NULL)
  /\ hist' = newSession(reviewQueue')
  /\ UNCHANGED << envVars, localStorage, progressList, streakDays,
                  lastStudyDate, dailyReviews, todayReviewedCount, words,
                  graded >>

\* stores/progress.ts startReview(input)
startReview(input) ==
  /\ reviewQueue' = sortByUrgency(input)
  /\ currentReviewIndex' = 0
  /\ lastOp' = op("startReview", sessionState, NULL)
  /\ hist' = newSession(reviewQueue')
  /\ UNCHANGED << envVars, localStorage, progressList, streakDays,
                  lastStudyDate, dailyReviews, todayReviewedCount, words,
                  graded >>

\* The lists the pages hand to startReview: words of the vocabulary store,
\* filtered, in the store's order.
reviewInputs ==
  { SelectSeq(words, LAMBDA w : w.id \in ids) :
      ids \in SUBSET { words[i].id : i \in 1..Len(words) } }

\* Mutant: the snapshot is saved before the list and the stats are updated.
recordGrading_savesFirst(newProgress) ==
  LET list == updateProgressList(progressList, newProgress)
      stats == updateStats(currentStats)
  IN /\ progressList' = list
     /\ streakDays' = stats.streakDays
     /\ lastStudyDate' = stats.lastStudyDate
     /\ dailyReviews' = stats.dailyReviews
     /\ todayReviewedCount' = stats.dailyReviews[getTodayDateString]
     /\ localStorage' =
          progressService_save(progressData(progressList, currentStats)).storage
     /\ words' = updateWord(words, newProgress)

\* Mutant: a grading whose snapshot cannot be saved is not recorded.
recordGrading_onlyIfSaved(newProgress) ==
  LET list == updateProgressList(progressList, newProgress)
      stats == updateStats(currentStats)
  IN IF progressService_save(progressData(list, stats)).ok
     THEN /\ progressList' = list
          /\ streakDays' = stats.streakDays
          /\ lastStudyDate' = stats.lastStudyDate
          /\ dailyReviews' = stats.dailyReviews
          /\ todayReviewedCount' = stats.dailyReviews[getTodayDateString]
          /\ localStorage' =
               progressService_save(progressData(list, stats)).storage
          /\ words' = updateWord(words, newProgress)
     ELSE UNCHANGED << progressList, streakDays, lastStudyDate, dailyReviews,
                       todayReviewedCount, localStorage, words >>

\* What a grading with result newProgress does before it moves the cursor:
\* updateProgressList, updateStats, saveProgress, and the page's updateWord.
recordGrading(newProgress) ==
  LET list == updateProgressList(progressList, newProgress)
      stats == updateStats(currentStats)
  IN /\ progressList' = list
     /\ streakDays' = stats.streakDays
     /\ lastStudyDate' = stats.lastStudyDate
     /\ dailyReviews' = stats.dailyReviews
     /\ todayReviewedCount' = stats.dailyReviews[getTodayDateString]
     /\ localStorage' = progressService_save(progressData(list, stats)).storage
     /\ words' = updateWord(words, newProgress)

\* Mutant: the review is counted before the current word is looked at.
gradeNothing_countsReview(name) ==
  /\ dailyReviews' = updateStats(currentStats).dailyReviews
  /\ streakDays' = updateStats(currentStats).streakDays
  /\ lastStudyDate' = updateStats(currentStats).lastStudyDate
  /\ todayReviewedCount' = dailyReviews'[getTodayDateString]
  /\ lastOp' = op(name, sessionState, NULL)
  /\ UNCHANGED << envVars, localStorage, progressList, reviewQueue,
                  currentReviewIndex, words, hist, graded >>

\* handleRemember and handleForget without a current word: return null
gradeNothing(name) ==
  /\ lastOp' = op(name, sessionState, NULL)
  /\ UNCHANGED << envVars, localStorage, storeVars, words, hist, graded >>

\* stores/progress.ts handleRemember, called by pages/Review.vue handleRemember
handleRemember ==
  IF currentWord = NULL
  THEN gradeNothing("handleRemember")
  ELSE /\ graded < MaxGraded
       /\ recordGrading(schedulerService_handleRemember(currentWord))
       /\ currentReviewIndex' = currentReviewIndex + 1
       /\ graded' = graded + 1
       /\ lastOp' = op("handleRemember", sessionState,
                       schedulerService_handleRemember(currentWord))
       /\ hist' = [hist EXCEPT
                     !.gradings = @ + 1,
                     !.presented = presentedWith(@, reviewQueue,
                                                 currentReviewIndex')]
       /\ UNCHANGED << envVars, reviewQueue >>

\* Mutant: the word goes back into the queue as it was.
updatedWord_stale(word, newProgress) == word

\* The copy of the forgotten word that goes back into the queue.
updatedWord(word, newProgress) ==
  [word EXCEPT !.reviewStage = newProgress.reviewStage,
               !.nextReviewAt = newProgress.nextReviewAt,
               !.memoryStatus = newProgress.memoryStatus,
               !.lastReviewedAt = newProgress.lastReviewedAt]

\* Mutant: the entry is written over the last element of the queue.
push_overwritesLast(queue, entry) == [queue EXCEPT ![Len(queue)] = entry]

\* Mutant: the entry is not put back into the queue.
push_dropped(queue, entry) == queue

\* Mutant: the queue is sorted again after the entry is put back.
push_resorts(queue, entry) == sortByUrgency(Append(queue, entry))

\* reviewQueue.value.push(entry)
push(queue, entry) == Append(queue, entry)

\* stores/progress.ts handleForget, called by pages/Review.vue handleForget
handleForget ==
  IF currentWord = NULL
  THEN gradeNothing("handleForget")
  ELSE /\ graded < MaxGraded
       /\ Len(reviewQueue) < MaxQueue
       /\ recordGrading(schedulerService_handleForget(currentWord))
       /\ reviewQueue' =
            push(reviewQueue,
                 updatedWord(currentWord,
                             schedulerService_handleForget(currentWord)))
       /\ currentReviewIndex' = currentReviewIndex + 1
       /\ graded' = graded + 1
       /\ lastOp' = op("handleForget", sessionState,
                       schedulerService_handleForget(currentWord))
       /\ hist' = [hist EXCEPT
                     !.gradings = @ + 1,
                     !.forgets = @ + 1,
                     !.presented = presentedWith(@, reviewQueue',
                                                 currentReviewIndex'),
                     !.forgotAt = @ \cup {currentReviewIndex}]
       /\ UNCHANGED envVars

\* stores/progress.ts skipCurrentWord
\* Mutant: the cursor moves on also when there is no current word.
skipCurrentWordNoting_passesEnd(noted) ==
  /\ currentReviewIndex' = currentReviewIndex + 1
  /\ lastOp' = noted
  /\ hist' = [hist EXCEPT
                !.skipped = @ \/ hasMoreWords,
                !.presented = presentedWith(@, reviewQueue,
                                            currentReviewIndex')]
  /\ UNCHANGED << envVars, localStorage, progressList, streakDays,
                  lastStudyDate, dailyReviews, reviewQueue,
                  todayReviewedCount, words, graded >>

\* stores/progress.ts skipCurrentWord; noted is what lastOp says of the call
skipCurrentWordNoting(noted) ==
  /\ currentReviewIndex' =
       IF hasMoreWords THEN currentReviewIndex + 1 ELSE currentReviewIndex
  /\ lastOp' = noted
  /\ hist' = [hist EXCEPT
                !.skipped = @ \/ hasMoreWords,
                !.presented = presentedWith(@, reviewQueue,
                                            currentReviewIndex')]
  /\ UNCHANGED << envVars, localStorage, progressList, streakDays,
                  lastStudyDate, dailyReviews, reviewQueue,
                  todayReviewedCount, words, graded >>

skipCurrentWord == skipCurrentWordNoting(otherOp)

\* stores/progress.ts restartReview
restartReview ==
  /\ currentReviewIndex' = 0
  /\ lastOp' = otherOp
  /\ hist' = [hist EXCEPT
                !.restarted = TRUE,
                !.presented = presentedWith(@, reviewQueue, 0)]
  /\ UNCHANGED << envVars, localStorage, progressList, streakDays,
                  lastStudyDate, dailyReviews, reviewQueue,
                  todayReviewedCount, words, graded >>

\* Mutant: the queue and the cursor of the session survive the reset.
resetProgressNoting_keepsQueue(noted) ==
  IF progressService_reset.ok
  THEN /\ localStorage' = progressService_reset.storage
       /\ progressList' = << >>
       /\ streakDays' = 0
       /\ lastStudyDate' = EmptyDate
       /\ dailyReviews' = EmptyMap
       /\ todayReviewedCount' = 0
       /\ words' = loadAllWordsWithProgress(<< >>)
       /\ lastOp' = noted
       /\ UNCHANGED << envVars, reviewQueue, currentReviewIndex, hist, graded >>
  ELSE /\ lastOp' = noted
       /\ UNCHANGED << envVars, localStorage, storeVars, words, hist, graded >>

\* stores/progress.ts resetProgress, called by pages/Stats.vue confirmReset,
\* which reloads the vocabulary with no progress on success; noted is what
\* lastOp keeps of the call.
resetProgressNoting(noted) ==
  IF progressService_reset.ok
  THEN /\ localStorage' = progressService_reset.storage
       /\ progressList' = << >>
       /\ streakDays' = 0
       /\ lastStudyDate' = EmptyDate
       /\ dailyReviews' = EmptyMap
       /\ reviewQueue' = << >>
       /\ currentReviewIndex' = 0
       /\ todayReviewedCount' = 0
       /\ words' = loadAllWordsWithProgress(<< >>)
       /\ lastOp' = noted
       /\ hist' = newSession(<< >>)
       /\ UNCHANGED << envVars, graded >>
  ELSE /\ lastOp' = noted
       /\ UNCHANGED << envVars, localStorage, storeVars, words, hist, graded >>

\* stores/progress.ts resetProgress
resetProgress == resetProgressNoting(otherOp)

Next ==
  \/ onMounted
  \/ \E input \in reviewInputs : startReview(input)
  \/ handleRemember
  \/ handleForget
  \/ skipCurrentWord
  \/ restartReview
  \/ resetProgress

Spec == Init /\ [][Next]_vars

-----------------------------------------------------------------------------
(* One session from its start to its end: the words are loaded and the      *)
(* session is started while there is none, after that the words are graded  *)
(* or skipped. The user goes on answering: a step that remembers or skips   *)
(* is taken again and again; handleForget is taken any number of times up   *)
(* to the bounds on the queue and on the gradings.                          *)

loadBeforeSession == sessionState = "Empty" /\ onMounted

startSession ==
  /\ sessionState = "Empty"
  /\ \E input \in reviewInputs : startReview(input)

\* stores/progress.ts skipCurrentWord, the call noted in lastOp
applySkipCurrentWord ==
  skipCurrentWordNoting(op("skipCurrentWord", sessionState, NULL))

rememberOrSkip == handleRemember \/ applySkipCurrentWord

NextSession ==
  \/ loadBeforeSession
  \/ startSession
  \/ handleRemember
  \/ handleForget
  \/ applySkipCurrentWord

SpecSession ==
  Init /\ [][NextSession]_vars /\ WF_vars(rememberOrSkip)

-----------------------------------------------------------------------------
(* The progress store on top of stored texts of every kind: absent, valid,  *)
(* no JSON, and JSON that lacks fields; with storage that is unavailable or *)
(* full in some runs, and with imports of pasted texts.                     *)

\* The snapshot an earlier run left behind (word a graded six times).
StoredSnapshot == JSON_parse(priorStorage(6, 8 * 60 * 60))

\* A snapshot of another device: word b at stage 2.
OtherSnapshot ==
  [version |-> CURRENT_VERSION,
   progress |-> << [id |-> generateWordId(Catalog[2].date, Catalog[2].raw.word),
                    reviewStage |-> 2, nextReviewAt |-> 3 * DAY_MS,
                    memoryStatus |-> "learning", lastReviewedAt |-> DAY_MS] >>,
   stats |-> [streakDays |-> 3, lastStudyDate |-> 1, dailyReviews |-> (1 :> 2)],
   settings |-> [voiceType |-> "en-US"]]

\* data as exportData() writes it: with exportedAt and exportVersion.
withExportFields(data) ==
  [f \in DOMAIN data \cup {"exportedAt", "exportVersion"} |->
     IF f = "exportedAt" THEN FirstInstant
     ELSE IF f = "exportVersion" THEN CURRENT_VERSION
     ELSE data[f]]

\* data with stats.dailyReviews missing.
withoutDailyReviews(data) ==
  [data EXCEPT !.stats = [streakDays |-> data.stats.streakDays,
                          lastStudyDate |-> data.stats.lastStudyDate]]

\* A snapshot whose progress element has only an id (of no catalog word) and
\* whose settings have no voiceType.
MalformedSnapshot ==
  [version |-> CURRENT_VERSION,
   progress |-> << [id |-> generateWordId(9, "z")] >>,
   stats |-> [streakDays |-> 1, lastStudyDate |-> 1, dailyReviews |-> (1 :> 1)],
   settings |-> [theme |-> "dark"]]

\* A text that is no JSON.
NotJsonText == [text |-> "not json"]

\* What localStorage holds at the start, if anything.
StoredTexts ==
  { JSON_stringify(StoredSnapshot),
    JSON_stringify(withoutDailyReviews(StoredSnapshot)),
    JSON_stringify(MalformedSnapshot),
    NotJsonText }

\* The texts pasted into the import dialog.
ImportTexts ==
  { JSON_stringify(withExportFields(OtherSnapshot)),
    JSON_stringify(withoutDailyReviews(OtherSnapshot)),
    JSON_stringify(withExportFields(MalformedSnapshot)),
    NotJsonText }

InitStorage ==
  /\ now = FirstInstant
  /\ tz \in TimeZones
  /\ storageAvailable \in BOOLEAN
  /\ quotaExceeded \in BOOLEAN
  /\ \/ localStorage = NULL
     \/ storageAvailable /\ localStorage \in StoredTexts
  /\ progressList = << >>
  /\ streakDays = 0
  /\ lastStudyDate = EmptyDate
  /\ dailyReviews = EmptyMap
  /\ reviewQueue = << >>
  /\ currentReviewIndex = 0
  /\ todayReviewedCount = 0
  /\ words = << >>
  /\ lastOp = otherOp
  /\ hist = newSession(<< >>)
  /\ graded = 0

\* What the review page does with the words it has loaded: startReview, if
\* there are any.
startReviewIfAny(input) ==
  IF Len(input) > 0
  THEN /\ reviewQueue' = sortByUrgency(input)
       /\ currentReviewIndex' = 0
       /\ lastOp' = op("startReview", sessionState, NULL)
       /\ hist' = newSession(reviewQueue')
  ELSE /\ lastOp' = otherOp
       /\ UNCHANGED << reviewQueue, currentReviewIndex, hist >>

\* pages/Review.vue onMounted: with an empty queue loadProgress(),
\* loadWords(progressList) and startReview(getTodayReviewWords(words))
reviewMounted ==
  IF Len(reviewQueue) = 0
  THEN /\ loadProgress
       /\ words' = loadAllWordsWithProgress(progressList')
       /\ startReviewIfAny(getTodayReviewWords(words'))
       /\ UNCHANGED << envVars, localStorage, graded >>
  ELSE /\ lastOp' = otherOp
       /\ UNCHANGED << envVars, localStorage, storeVars, words, hist, graded >>

\* pages/Review.vue continueReview: loadProgress(), loadWords(progressList)
\* and startReview(words)
continueReview ==
  /\ isReviewComplete
  /\ loadProgress
  /\ words' = loadAllWordsWithProgress(progressList')
  /\ startReviewIfAny(words')
  /\ UNCHANGED << envVars, localStorage, graded >>

\* pages/Stats.vue confirmImport: importData(text) and, if it succeeded,
\* loadProgress() and loadWords(progressList)
confirmImportOf(text) ==
    /\ localStorage' = progressService_importData(text).storage
    /\ lastOp' = op("importData", text,
                    [success |-> progressService_importData(text).success])
    /\ IF progressService_importData(text).success
       THEN /\ assignProgress(deleteExportFields(JSON_parse(text)))
            /\ words' = loadAllWordsWithProgress(progressList')
            /\ UNCHANGED << reviewQueue, currentReviewIndex >>
       ELSE UNCHANGED << storeVars, words >>
    /\ UNCHANGED << envVars, hist, graded >>

\* pages/Stats.vue confirmImport with one of the texts of ImportTexts pasted
\* into the dialog
confirmImport == \E text \in ImportTexts : confirmImportOf(text)

\* progressService.load(), its result left in lastOp
applyLoad ==
  /\ lastOp' = op("progressService.load", "-", progressService_load)
  /\ UNCHANGED << envVars, localStorage, storeVars, words, hist, graded >>

NextStorage ==
  \/ reviewMounted
  \/ continueReview
  \/ handleRemember
  \/ handleForget
  \/ resetProgress
  \/ confirmImport
  \/ applyLoad

SpecStorage == InitStorage /\ [][NextStorage]_vars

-----------------------------------------------------------------------------
(* Moving the learning record to another device: the text of exportData()   *)
(* is copied on one device and imported on a device whose store is empty.   *)

\* pages/Stats.vue copies the text of exportData() to the clipboard; lastOp
\* keeps the snapshot it was made from and the text.
copyToClipboard ==
  /\ lastOp' = op("copyToClipboard", progressService_load,
                  progressService_exportData)
  /\ UNCHANGED << envVars, localStorage, storeVars, words, hist, graded >>

\* The user goes to a device that has never run the application, with the
\* copied text; its storage may be unavailable or full.
openOtherDevice ==
  /\ lastOp.name = "copyToClipboard"
  /\ lastOp.ret # NULL
  /\ storageAvailable' \in BOOLEAN
  /\ quotaExceeded' \in BOOLEAN
  /\ localStorage' = NULL
  /\ progressList' = << >>
  /\ streakDays' = 0
  /\ lastStudyDate' = EmptyDate
  /\ dailyReviews' = EmptyMap
  /\ reviewQueue' = << >>
  /\ currentReviewIndex' = 0
  /\ todayReviewedCount' = 0
  /\ words' = << >>
  /\ lastOp' = op("paste", lastOp.before, lastOp.ret)
  /\ hist' = newSession(<< >>)
  /\ UNCHANGED << now, tz, graded >>

\* pages/Stats.vue confirmImport with the copied text in the dialog
pasteImport ==
  /\ lastOp.name = "paste"
  /\ confirmImportOf(lastOp.ret)

NextTransfer ==
  \/ reviewMounted
  \/ handleRemember
  \/ handleForget
  \/ copyToClipboard
  \/ openOtherDevice
  \/ pasteImport
  \/ applyLoad

SpecTransfer == InitStorage /\ [][NextTransfer]_vars

-----------------------------------------------------------------------------
(* The progress service alone, as its unit tests call it: load, save and    *)
(* reset on a storage that holds any kind of text and that can become       *)
(* unavailable or full between two calls.                                   *)

\* A snapshot whose lastStudyDate is a day that has not come yet (written
\* with a clock that was ahead).
LaterSnapshot ==
  [OtherSnapshot EXCEPT !.stats = [streakDays |-> 2, lastStudyDate |-> 9,
                                   dailyReviews |-> (9 :> 1)]]

\* The snapshots handed to save().
SaveInputs == { createDefaultProgressData, OtherSnapshot, LaterSnapshot }

\* isStorageAvailable() and setItem() change their outcome.
storageChanges ==
  /\ storageAvailable' \in BOOLEAN
  /\ quotaExceeded' \in BOOLEAN
  /\ lastOp' = otherOp
  /\ UNCHANGED << now, tz, localStorage, storeVars, words, hist, graded >>

\* The clock moves on by a day.
TickDay ==
  /\ now < LastInstant
  /\ now' = now + DAY_MS
  /\ lastOp' = otherOp
  /\ UNCHANGED << tz, storageAvailable, quotaExceeded, localStorage,
                  storeVars, words, hist, graded >>

\* progressService.save(data), its result left in lastOp
applySave ==
  \E data \in SaveInputs :
    /\ localStorage' = progressService_save(data).storage
    /\ lastOp' = op("progressService.save", data,
                    progressService_save(data).ok)
    /\ UNCHANGED << envVars, storeVars, words, hist, graded >>

\* progressService.reset(), its result left in lastOp
applyReset ==
  /\ localStorage' = progressService_reset.storage
  /\ lastOp' = op("progressService.reset", "-", progressService_reset.ok)
  /\ UNCHANGED << envVars, storeVars, words, hist, graded >>

\* The ids updateWordProgress is called with.
WordIds == { generateWordId(Catalog[1].date, Catalog[1].raw.word),
             generateWordId(Catalog[2].date, Catalog[2].raw.word) }

\* The fields updateWordProgress is called with: a complete record (of the
\* first word), two fields only, and a record that lacks its id.
ProgressFields ==
  { [id |-> generateWordId(Catalog[1].date, Catalog[1].raw.word),
     reviewStage |-> 1, nextReviewAt |-> 3 * DAY_MS,
     memoryStatus |-> "learning"],
    [reviewStage |-> 2, memoryStatus |-> "learning"],
    [reviewStage |-> 3, nextReviewAt |-> 7 * DAY_MS,
     memoryStatus |-> "learning"] }

\* progressService.updateWordProgress(wordId, progress), its arguments and
\* its result left in lastOp
applyUpdateWordProgress ==
  \E wordId \in WordIds, progress \in ProgressFields :
    /\ graded < MaxGraded
    /\ graded' = graded + 1
    /\ localStorage' =
         progressService_updateWordProgress(wordId, progress).storage
    /\ lastOp' = op("updateWordProgress",
                    [id |-> wordId, progress |-> progress,
                     data |-> progressService_load],
                    progressService_updateWordProgress(wordId, progress).ok)
    /\ UNCHANGED << envVars, storeVars, words, hist >>

NextService ==
  \/ storageChanges
  \/ TickDay
  \/ applySave
  \/ applyReset
  \/ applyLoad
  \/ applyUpdateWordProgress

SpecService == InitStorage /\ [][NextService]_vars

-----------------------------------------------------------------------------
(* The application in a browser whose localStorage throws on every access   *)
(* (isStorageAvailable() is false throughout), whatever an earlier run has  *)
(* stored.                                                                  *)

InitOffline ==
  /\ now = FirstInstant
  /\ tz \in TimeZones
  /\ storageAvailable = FALSE
  /\ quotaExceeded \in BOOLEAN
  /\ localStorage \in {NULL} \cup StoredTexts
  /\ progressList = << >>
  /\ streakDays = 0
  /\ lastStudyDate = EmptyDate
  /\ dailyReviews = EmptyMap
  /\ reviewQueue = << >>
  /\ currentReviewIndex = 0
  /\ todayReviewedCount = 0
  /\ words = << >>
  /\ lastOp = otherOp
  /\ hist = newSession(<< >>)
  /\ graded = 0

NextOffline ==
  \/ reviewMounted
  \/ continueReview
  \/ handleRemember
  \/ handleForget
  \/ resetProgress
  \/ applyLoad
  \/ applySave
  \/ applyReset

SpecOffline == InitOffline /\ [][NextOffline]_vars

-----------------------------------------------------------------------------
(* Resetting: sessions on any stored text, with resetProgress() of the      *)
(* store and reset() of the service leaving their results in lastOp.        *)

\* stores/progress.ts resetProgress, its result left in lastOp
applyResetProgress ==
  resetProgressNoting(op("resetProgress", sessionState,
                         progressService_reset.ok))

NextReset ==
  \/ reviewMounted
  \/ handleRemember
  \/ handleForget
  \/ applyResetProgress
  \/ applyReset
  \/ applyLoad

SpecReset == InitStorage /\ [][NextReset]_vars

-----------------------------------------------------------------------------
(* Sessions over several days: the clock moves on by whole days between    *)
(* gradings, on top of snapshots last written the day before, three days   *)
(* before the last day, or with a clock that was ahead.                    *)

StreakTexts ==
  { JSON_stringify(StoredSnapshot), JSON_stringify(OtherSnapshot),
    JSON_stringify(LaterSnapshot) }

InitStreak ==
  /\ now = FirstInstant
  /\ tz \in TimeZones
  /\ storageAvailable = TRUE
  /\ quotaExceeded = FALSE
  /\ localStorage \in {NULL} \cup StreakTexts
  /\ progressList = << >>
  /\ streakDays = 0
  /\ lastStudyDate = EmptyDate
  /\ dailyReviews = EmptyMap
  /\ reviewQueue = << >>
  /\ currentReviewIndex = 0
  /\ todayReviewedCount = 0
  /\ words = << >>
  /\ lastOp = otherOp
  /\ hist = newSession(<< >>)
  /\ graded = 0

\* updateWordProgress as called before a page of this run is opened (no page
\* of the application calls it during a session)
updateBeforeSession ==
  /\ Len(words) = 0
  /\ applyUpdateWordProgress

NextStreak ==
  \/ TickDay
  \/ reviewMounted
  \/ continueReview
  \/ handleRemember
  \/ handleForget
  \/ updateBeforeSession

SpecStreak == InitStreak /\ [][NextStreak]_vars

-----------------------------------------------------------------------------
(* Grading histories of one entry: the first catalog word, seeded as a new  *)
(* entry, is graded again and again, the result of each transition being    *)
(* written into the entry as the review page does; hist counts the          *)
(* gradings.                                                                *)

\* remembers, forgets: the gradings of each kind so far; run: the remembers
\* since the last forget (or since the start).
noGradings == [remembers |-> 0, forgets |-> 0, run |-> 0]

InitMastery ==
  /\ now = FirstInstant
  /\ tz \in SchedulerTimeZones
  /\ storageAvailable = TRUE
  /\ quotaExceeded = FALSE
  /\ localStorage = NULL
  /\ progressList = << >>
  /\ streakDays = 0
  /\ lastStudyDate = EmptyDate
  /\ dailyReviews = EmptyMap
  /\ reviewQueue = << >>
  /\ currentReviewIndex = 0
  /\ todayReviewedCount = 0
  /\ words = << createWordEntry(Catalog[1].raw, Catalog[1].date) >>
  /\ lastOp = otherOp
  /\ hist = noGradings
  /\ graded = 0

\* pages/Review.vue handleRemember on the entry: the transition of the
\* scheduler, then updateWord
rememberEntry ==
  /\ graded < MaxHistory
  /\ graded' = graded + 1
  /\ words' = updateWord(words, schedulerService_handleRemember(words[1]))
  /\ lastOp' = op("schedulerService.handleRemember", words[1],
                  schedulerService_handleRemember(words[1]))
  /\ hist' = [hist EXCEPT !.remembers = @ + 1, !.run = @ + 1]
  /\ UNCHANGED << envVars, localStorage, storeVars >>

\* pages/Review.vue handleForget on the entry
forgetEntry ==
  /\ graded < MaxHistory
  /\ graded' = graded + 1
  /\ words' = updateWord(words, schedulerService_handleForget(words[1]))
  /\ lastOp' = op("schedulerService.handleForget", words[1],
                  schedulerService_handleForget(words[1]))
  /\ hist' = [hist EXCEPT !.forgets = @ + 1, !.run = 0]
  /\ UNCHANGED << envVars, localStorage, storeVars >>

NextMastery ==
  \/ TickDay
  \/ rememberEntry
  \/ forgetEntry

SpecMastery == InitMastery /\ [][NextMastery]_vars

-----------------------------------------------------------------------------
(* Gradings that do not run to their end: the process stops after some of   *)
(* the steps of handleRemember or handleForget (1 updateProgressList,       *)
(* 2 updateStats, 3 saveProgress, then the push of handleForget and the     *)
(* increment of the cursor). What is in memory is gone with the process;    *)
(* localStorage stays as the steps that ran have left it.                   *)

\* The steps of a grading after which the process can stop: none, the
\* update of the list, the update of the stats, the save.
StopPoints == 0..3

\* Mutant: the list is written to storage (with the stats as they were) as
\* soon as it is updated, and the stats with the save.
storageAfterSteps_writesListFirst(k, newProgress) ==
  LET list == updateProgressList(progressList, newProgress)
      stats == updateStats(currentStats)
  IN IF k >= 3 THEN progressService_save(progressData(list, stats)).storage
     ELSE IF k >= 1
     THEN progressService_save(progressData(list, currentStats)).storage
     ELSE localStorage

\* localStorage after the first k steps of a grading with result newProgress
storageAfterSteps(k, newProgress) ==
  LET list == updateProgressList(progressList, newProgress)
      stats == updateStats(currentStats)
  IN IF k >= 3 THEN progressService_save(progressData(list, stats)).storage
     ELSE localStorage

\* The process stops after k steps of the grading name of the current word.
stoppedIn(name, k, newProgress) ==
  /\ currentWord # NULL
  /\ graded < MaxGraded
  /\ graded' = graded + 1
  /\ localStorage' = storageAfterSteps(k, newProgress)
  /\ progressList' = << >>
  /\ streakDays' = 0
  /\ lastStudyDate' = EmptyDate
  /\ dailyReviews' = EmptyMap
  /\ reviewQueue' = << >>
  /\ currentReviewIndex' = 0
  /\ todayReviewedCount' = 0
  /\ words' = << >>
  /\ lastOp' = op("stopped", name, [steps |-> k, record |-> newProgress])
  /\ hist' = newSession(<< >>)
  /\ UNCHANGED envVars

stoppedInRemember ==
  \E k \in StopPoints :
    stoppedIn("handleRemember", k, schedulerService_handleRemember(currentWord))

stoppedInForget ==
  \E k \in StopPoints :
    stoppedIn("handleForget", k, schedulerService_handleForget(currentWord))

NextCrash ==
  \/ reviewMounted
  \/ continueReview
  \/ handleRemember
  \/ handleForget
  \/ stoppedInRemember
  \/ stoppedInForget

SpecCrash == InitStorage /\ [][NextCrash]_vars

-----------------------------------------------------------------------------
(* The callers of startReview: the home page with the words due today, the  *)
(* review page on mount with the words due today, continueReview with all   *)
(* words and selectDate with all words or those added on one date. lastOp   *)
(* names the caller.                                                        *)

\* A snapshot in which word a was remembered at stage 6 on the day it was
\* due: mastered, with the nextReviewAt it had.
MasteredSnapshot ==
  [version |-> CURRENT_VERSION,
   progress |-> << [id |-> generateWordId(Catalog[1].date, Catalog[1].raw.word),
                    reviewStage |-> 6, nextReviewAt |-> DAY_MS,
                    memoryStatus |-> "mastered",
                    lastReviewedAt |-> PriorInstant] >>,
   stats |-> [streakDays |-> 1, lastStudyDate |-> 1, dailyReviews |-> (1 :> 1)],
   settings |-> [voiceType |-> "en-US"]]

InitCallers ==
  /\ now = FirstInstant
  /\ tz \in TimeZones
  /\ storageAvailable = TRUE
  /\ quotaExceeded = FALSE
  /\ localStorage \in {NULL, JSON_stringify(StoredSnapshot),
                       JSON_stringify(MasteredSnapshot)}
  /\ progressList = << >>
  /\ streakDays = 0
  /\ lastStudyDate = EmptyDate
  /\ dailyReviews = EmptyMap
  /\ reviewQueue = << >>
  /\ currentReviewIndex = 0
  /\ todayReviewedCount = 0
  /\ words = << >>
  /\ lastOp = otherOp
  /\ hist = newSession(<< >>)
  /\ graded = 0

\* stores/progress.ts startReview(input), called by caller when input has
\* words
startReviewBy(caller, input) ==
  IF Len(input) > 0
  THEN /\ reviewQueue' = sortByUrgency(input)
       /\ currentReviewIndex' = 0
       /\ lastOp' = op("startReview", caller, NULL)
       /\ hist' = newSession(reviewQueue')
  ELSE /\ lastOp' = otherOp
       /\ UNCHANGED << reviewQueue, currentReviewIndex, hist >>

\* pages/Home.vue startReview: startReview(todayReviewWords), with the words
\* the page has loaded
homeStartReview ==
  /\ startReviewBy("Home.startReview", getTodayReviewWords(words))
  /\ UNCHANGED << envVars, localStorage, progressList, streakDays,
                  lastStudyDate, dailyReviews, todayReviewedCount, words,
                  graded >>

\* pages/Review.vue onMounted, with an empty queue
reviewOnMounted ==
  /\ Len(reviewQueue) = 0
  /\ loadProgress
  /\ words' = loadAllWordsWithProgress(progressList')
  /\ startReviewBy("Review.onMounted", getTodayReviewWords(words'))
  /\ UNCHANGED << envVars, localStorage, graded >>

\* pages/Review.vue continueReview, the button of the completed session
continueReviewAll ==
  /\ isReviewComplete
  /\ loadProgress
  /\ words' = loadAllWordsWithProgress(progressList')
  /\ startReviewBy("Review.continueReview", words')
  /\ UNCHANGED << envVars, localStorage, graded >>

\* The dates the date picker offers, and 0 for "all" (date null).
PickerDates == {0} \cup {Catalog[i].date : i \in DOMAIN Catalog}

\* pages/Review.vue selectDate(date)
selectDate(date) ==
  /\ loadProgress
  /\ words' = loadAllWordsWithProgress(progressList')
  /\ startReviewBy("Review.selectDate",
                   IF date = 0 THEN words'
                   ELSE SelectSeq(words', LAMBDA w : w.addedDate = date))
  /\ UNCHANGED << envVars, localStorage, graded >>

NextCallers ==
  \/ onMounted
  \/ homeStartReview
  \/ reviewOnMounted
  \/ continueReviewAll
  \/ \E date \in PickerDates : selectDate(date)
  \/ handleRemember
  \/ handleForget
  \/ skipCurrentWord
  \/ restartReview

SpecCallers == InitCallers /\ [][NextCallers]_vars

-----------------------------------------------------------------------------
(* The scheduler service alone: its pure functions applied to one entry,   *)
(* held in words, at the instants of a moving clock.                       *)

SchedulerEntries ==
  { [id |-> generateWordId(1, "a"), word |-> "a", meaning |-> "ma",
     addedDate |-> 1, reviewStage |-> stage, nextReviewAt |-> next,
     memoryStatus |-> status, lastReviewedAt |-> Undefined] :
      stage \in 0..6, status \in {"new", "learning", "mastered"},
      next \in {DAY_MS, 2 * DAY_MS + 16 * 60 * 60, 40 * DAY_MS} }

InitScheduler ==
  /\ now = FirstInstant
  /\ tz \in SchedulerTimeZones
  /\ storageAvailable = TRUE
  /\ quotaExceeded = FALSE
  /\ localStorage = NULL
  /\ progressList = << >>
  /\ streakDays = 0
  /\ lastStudyDate = EmptyDate
  /\ dailyReviews = EmptyMap
  /\ reviewQueue = << >>
  /\ currentReviewIndex = 0
  /\ todayReviewedCount = 0
  /\ \E entry \in SchedulerEntries : words = << entry >>
  /\ lastOp = otherOp
  /\ hist = newSession(<< >>)
  /\ graded = 0

\* The clock moves on by half a day.
Tick ==
  /\ now < LastInstant
  /\ now' = now + DAY_MS \div 2
  /\ lastOp' = otherOp
  /\ UNCHANGED << tz, storageAvailable, quotaExceeded, localStorage,
                  storeVars, words, hist, graded >>

\* schedulerService.handleRemember(words[1]), its result left in lastOp
applyRemember ==
  /\ lastOp' = op("schedulerService.handleRemember", "-",
                  schedulerService_handleRemember(words[1]))
  /\ UNCHANGED << envVars, localStorage, storeVars, words, hist, graded >>

\* schedulerService.handleForget(words[1]), its result left in lastOp
applyForget ==
  /\ lastOp' = op("schedulerService.handleForget", "-",
                  schedulerService_handleForget(words[1]))
  /\ UNCHANGED << envVars, localStorage, storeVars, words, hist, graded >>

\* pages/Review.vue handleRemember / handleForget: the result of the last
\* transition is written into the entry of the vocabulary store.
commitResult ==
  /\ lastOp.name \in {"schedulerService.handleRemember",
                      "schedulerService.handleForget"}
  /\ words' = updateWord(words, lastOp.ret)
  /\ lastOp' = otherOp
  /\ UNCHANGED << envVars, localStorage, storeVars, hist, graded >>

NextScheduler ==
  \/ Tick
  \/ applyRemember
  \/ applyForget
  \/ commitResult

SpecScheduler == InitScheduler /\ [][NextScheduler]_vars

-----------------------------------------------------------------------------
(* The pure functions of the scheduler and of the word loader, applied to   *)
(* arguments drawn from small sets at the instants of a moving clock; the   *)
(* arguments are left in lastOp.before and the result in lastOp.ret.        *)

InitFunctions ==
  /\ now = FirstInstant
  /\ tz \in SchedulerTimeZones
  /\ storageAvailable = TRUE
  /\ quotaExceeded = FALSE
  /\ localStorage = NULL
  /\ progressList = << >>
  /\ streakDays = 0
  /\ lastStudyDate = EmptyDate
  /\ dailyReviews = EmptyMap
  /\ reviewQueue = << >>
  /\ currentReviewIndex = 0
  /\ todayReviewedCount = 0
  /\ words = << >>
  /\ lastOp = otherOp
  /\ hist = newSession(<< >>)
  /\ graded = 0

\* The instants handed to calculateNextReview as its base time.
BaseInstants ==
  { FirstInstant + k * (DAY_MS \div 4) : k \in 0..8 }

\* schedulerService.calculateNextReview(stage, base) for two base instants
applyCalculateNextReview ==
  \E stage \in 0..6, base1 \in BaseInstants, base2 \in BaseInstants :
    /\ lastOp' = op("schedulerService.calculateNextReview",
                    [stage |-> stage, base1 |-> base1, base2 |-> base2],
                    << calculateNextReview(stage, base1),
                       calculateNextReview(stage, base2) >>)
    /\ UNCHANGED << envVars, localStorage, storeVars, words, hist, graded >>

\* The dates of the catalog files handed to calculateInitialReview.
AddedDates == 1..4

\* schedulerService.calculateInitialReview(addedDate)
applyCalculateInitialReview ==
  \E addedDate \in AddedDates :
    /\ lastOp' = op("schedulerService.calculateInitialReview", addedDate,
                    calculateInitialReview(addedDate))
    /\ UNCHANGED << envVars, localStorage, storeVars, words, hist, graded >>

\* A record of catalog word i.
recordOf(i, stage, status) ==
  [id |-> generateWordId(Catalog[i].date, Catalog[i].raw.word),
   reviewStage |-> stage, nextReviewAt |-> (stage + 6) * DAY_MS,
   memoryStatus |-> status, lastReviewedAt |-> DAY_MS]

\* Progress lists with records of both words in either order, with a record
\* of a word that is not in the catalog, and with a record that has no
\* lastReviewedAt.
LongerProgress ==
  { << recordOf(1, 6, "mastered"), recordOf(2, 3, "learning") >>,
    << recordOf(2, 1, "learning"), recordOf(1, 2, "learning") >>,
    << [recordOf(1, 4, "learning") EXCEPT !.id = generateWordId(9, "z")],
       recordOf(2, 5, "learning") >>,
    << [id |-> generateWordId(Catalog[1].date, Catalog[1].raw.word),
        reviewStage |-> 1, nextReviewAt |-> 3 * DAY_MS,
        memoryStatus |-> "learning"] >> }

\* The progress lists handed to the word loader: none, one record for one
\* of the catalog words, or one of the longer lists.
LoadedProgress ==
  {<< >>} \cup
  { << [id |-> generateWordId(Catalog[i].date, Catalog[i].raw.word),
        reviewStage |-> 3, nextReviewAt |-> 9 * DAY_MS,
        memoryStatus |-> "learning", lastReviewedAt |-> DAY_MS] >> :
      i \in 1..Len(Catalog) } \cup
  LongerProgress

\* wordLoaderService.loadAllWordsWithProgress(progress)
applyLoadAllWordsWithProgress ==
  \E progress \in LoadedProgress :
    /\ lastOp' = op("loadAllWordsWithProgress", progress,
                    loadAllWordsWithProgress(progress))
    /\ UNCHANGED << envVars, localStorage, storeVars, words, hist, graded >>

\* Progress lists that hold several records with the same id: two of word
\* a, two of word a around one of word b, and three of word b.
DuplicateProgress ==
  { << recordOf(1, 2, "learning"), recordOf(1, 5, "learning") >>,
    << recordOf(1, 6, "mastered"), recordOf(2, 3, "learning"),
       recordOf(1, 1, "learning") >>,
    << recordOf(2, 4, "learning"), recordOf(2, 1, "learning"),
       recordOf(2, 2, "learning") >> }

\* The catalog, and the catalog with its first word listed once more on the
\* same date.
MergedCatalogs ==
  { Catalog, Catalog \o << Catalog[1] >> }

\* wordLoaderService.mergeWithProgress(words, progress)
applyMergeWithProgress ==
  \E ws \in MergedCatalogs, progress \in LoadedProgress \cup DuplicateProgress :
    /\ lastOp' = op("mergeWithProgress", [words |-> ws, progress |-> progress],
                    mergeWithProgress(ws, progress))
    /\ UNCHANGED << envVars, localStorage, storeVars, words, hist, graded >>

NextFunctions ==
  \/ Tick
  \/ applyCalculateNextReview
  \/ applyCalculateInitialReview
  \/ applyLoadAllWordsWithProgress
  \/ applyMergeWithProgress

SpecFunctions == InitFunctions /\ [][NextFunctions]_vars

-----------------------------------------------------------------------------
(* The list functions of the scheduler, applied to the list held in words   *)
(* at the instants of a moving clock; the result is left in lastOp.ret.     *)

\* nextReviewAt of the entries in the lists: long ago, the start and the end
\* of local day 2 and the start of local day 3 in the zone at -4 h, far ahead.
DueTimes ==
  { DAY_MS, 2 * DAY_MS + 4 * 60 * 60, 3 * DAY_MS + 4 * 60 * 60 - 1,
    3 * DAY_MS + 4 * 60 * 60, 40 * DAY_MS }

DueKinds == DueTimes \X {"learning", "mastered"}

\* Lists of up to MaxWords entries; the entry at position i has id <<i, "w">>.
DueLists ==
  UNION { { [i \in 1..n |->
              [id |-> generateWordId(i, "w"), word |-> "w", meaning |-> "m",
               addedDate |-> i, reviewStage |-> 1,
               nextReviewAt |-> kinds[i][1], memoryStatus |-> kinds[i][2],
               lastReviewedAt |-> Undefined]] :
            kinds \in [1..n -> DueKinds] } : n \in 0..MaxWords }

\* schedulerService.sortByUrgency(words)
applySortByUrgency ==
  /\ lastOp' = op("schedulerService.sortByUrgency", "-", sortByUrgency(words))
  /\ UNCHANGED << envVars, localStorage, storeVars, words, hist, graded >>

\* schedulerService.getTodayReviewWords(words)
applyGetTodayReviewWords ==
  /\ lastOp' = op("schedulerService.getTodayReviewWords", "-",
                  getTodayReviewWords(words))
  /\ UNCHANGED << envVars, localStorage, storeVars, words, hist, graded >>

InitLists ==
  /\ now = FirstInstant
  /\ tz \in SchedulerTimeZones
  /\ storageAvailable = TRUE
  /\ quotaExceeded = FALSE
  /\ localStorage = NULL
  /\ progressList = << >>
  /\ streakDays = 0
  /\ lastStudyDate = EmptyDate
  /\ dailyReviews = EmptyMap
  /\ reviewQueue = << >>
  /\ currentReviewIndex = 0
  /\ todayReviewedCount = 0
  /\ words \in DueLists
  /\ lastOp = otherOp
  /\ hist = newSession(<< >>)
  /\ graded = 0

NextLists ==
  \/ Tick
  \/ applySortByUrgency
  \/ applyGetTodayReviewWords

SpecLists == InitLists /\ [][NextLists]_vars

-----------------------------------------------------------------------------
(* Properties of the review session (spec 4.3) *)

\* The forget transition of spec 4.1 applied to word at the instant now.
IsForgetOf(p, word) ==
  /\ p.id = word.id
  /\ p.reviewStage = 1
  /\ p.memoryStatus = "learning"
  /\ p.nextReviewAt = getStartOfDay(now) + REVIEW_INTERVALS[1] * DAY_MS
  /\ p.lastReviewedAt = now

\* The remember transition of spec 4.1 applied to word at the instant now.
IsRememberOf(p, word) ==
  /\ p.id = word.id
  /\ p.lastReviewedAt = now
  /\ IF word.reviewStage < 6
     THEN /\ p.reviewStage = word.reviewStage + 1
          /\ p.memoryStatus = "learning"
          /\ p.nextReviewAt = getStartOfDay(now)
                              + REVIEW_INTERVALS[word.reviewStage + 1] * DAY_MS
     ELSE /\ p.reviewStage = 6
          /\ p.memoryStatus = "mastered"
          /\ p.nextReviewAt = word.nextReviewAt

\* list is old with the record of p's id replaced by p, or with p appended
\* when old has no record of that id.
IsListWith(list, old, p) ==
  IF \E i \in 1..Len(old) : old[i].id = p.id
  THEN /\ Len(list) = Len(old)
       /\ \E i \in 1..Len(old) :
            /\ old[i].id = p.id
            /\ list[i] = p
            /\ \A j \in 1..Len(old) : j # i => list[j] = old[j]
  ELSE list = Append(old, p)

\* The stored snapshot holds the progress list and the stats of the store.
StoredIsCurrent(storage, list, streak, last, reviews) ==
  /\ storage # NULL
  /\ JSON_parse(storage).progress = list
  /\ JSON_parse(storage).stats.streakDays = streak
  /\ JSON_parse(storage).stats.lastStudyDate = last
  /\ JSON_parse(storage).stats.dailyReviews = reviews

\* C1: handleForget with a current word applies the forget transition to the
\* word's record, appends a copy of the word with the new stage 1, the new
\* nextReviewAt, status learning and the new lastReviewedAt at the tail of the
\* queue, which grows by exactly 1, and advances the cursor by exactly 1.
C1_ForgetRequeuesAtTail ==
  [][(lastOp'.name = "handleForget" /\ currentWord # NULL) =>
       /\ IsForgetOf(lastOp'.ret, currentWord)
       /\ IsListWith(progressList', progressList, lastOp'.ret)
       /\ Len(reviewQueue') = Len(reviewQueue) + 1
       /\ SubSeq(reviewQueue', 1, Len(reviewQueue)) = reviewQueue
       /\ LET tail == reviewQueue'[Len(reviewQueue')]
          IN /\ tail.id = currentWord.id
             /\ tail.word = currentWord.word
             /\ tail.meaning = currentWord.meaning
             /\ tail.addedDate = currentWord.addedDate
             /\ tail.reviewStage = 1
             /\ tail.memoryStatus = "learning"
             /\ tail.nextReviewAt = lastOp'.ret.nextReviewAt
             /\ tail.lastReviewedAt = now
       /\ currentReviewIndex' = currentReviewIndex + 1]_vars

\* A word above stage 1 was forgotten and is back at the tail of the queue.
C1_Witness ==
  /\ lastOp.name = "handleForget"
  /\ lastOp.ret # NULL
  /\ Len(reviewQueue) = 2
  /\ reviewQueue[2].id = reviewQueue[1].id
  /\ reviewQueue[1].reviewStage = 6
  /\ reviewQueue[2].reviewStage = 1
  /\ currentReviewIndex = 1

C3_LengthAndCompletion ==
  /\ Len(reviewQueue) = hist.n0 + hist.forgets
  /\ (~hist.skipped /\ ~hist.restarted) =>
       /\ currentReviewIndex = hist.gradings
       /\ isReviewComplete => hist.gradings = Len(reviewQueue)

\* [A,B], both forgotten: length 4, Complete after exactly 4 gradings.
C3_Witness ==
  /\ hist.n0 = 2
  /\ hist.forgets = 2
  /\ ~hist.skipped /\ ~hist.restarted
  /\ Len(reviewQueue) = 4
  /\ hist.gradings = 4
  /\ isReviewComplete

C6_QueueAppendOnly ==
  [][\/ lastOp'.name = "startReview"
     \/ resetProgress
     \/ reviewQueue' = reviewQueue
     \/ /\ lastOp'.name = "handleForget"
        /\ lastOp'.ret # NULL
        /\ Len(reviewQueue') = Len(reviewQueue) + 1
        /\ SubSeq(reviewQueue', 1, Len(reviewQueue)) = reviewQueue]_vars

\* A forgotten word is at the tail although it is due before the word in
\* front of it: the queue is not in urgency order any more.
C6_Witness ==
  /\ lastOp.name = "handleForget"
  /\ lastOp.ret # NULL
  /\ Len(reviewQueue) = 3
  /\ reviewQueue[3].nextReviewAt < reviewQueue[2].nextReviewAt

\* The three states of a session, with what the getters say in each.
Empty ==
  /\ Len(reviewQueue) = 0
  /\ currentWord = NULL
  /\ ~hasMoreWords
  /\ ~isReviewComplete

InProgress ==
  /\ currentReviewIndex < Len(reviewQueue)
  /\ currentWord # NULL
  /\ currentWord = reviewQueue[currentReviewIndex + 1]
  /\ hasMoreWords
  /\ ~isReviewComplete

Complete ==
  /\ Len(reviewQueue) > 0
  /\ currentReviewIndex >= Len(reviewQueue)
  /\ isReviewComplete
  /\ currentWord = NULL
  /\ ~hasMoreWords

\* C7: the session is always in exactly one of Empty, InProgress and
\* Complete, and it goes from InProgress to Complete only by the cursor
\* reaching the length of the queue.
C7_SessionStates ==
  /\ [](/\ Empty \/ InProgress \/ Complete
        /\ ~(Empty /\ InProgress)
        /\ ~(Empty /\ Complete)
        /\ ~(InProgress /\ Complete))
  /\ [][(InProgress /\ Complete') =>
          /\ currentReviewIndex' = currentReviewIndex + 1
          /\ currentReviewIndex' = Len(reviewQueue')]_vars

\* A session that grew by a forget went from InProgress to Complete.
C7_Witness ==
  /\ Complete
  /\ lastOp.name = "handleRemember"
  /\ lastOp.before = "InProgress"
  /\ hist.forgets = 1
  /\ currentReviewIndex = Len(reviewQueue)

\* C8: a grading without a current word returns null and changes nothing:
\* progress list, streak, lastStudyDate, dailyReviews, queue, cursor and the
\* stored snapshot stay as they are.
C8_GradingWithoutWordIsNoOp ==
  [][(lastOp'.name \in {"handleRemember", "handleForget"}
      /\ currentWord = NULL) =>
       /\ lastOp'.ret = NULL
       /\ UNCHANGED << progressList, streakDays, lastStudyDate, dailyReviews,
                       todayReviewedCount, reviewQueue, currentReviewIndex,
                       localStorage, words >>]_vars

\* handleForget was called in a Complete session that had recorded gradings.
C8_Witness ==
  /\ lastOp.name = "handleForget"
  /\ lastOp.before = "Complete"
  /\ lastOp.ret = NULL
  /\ progressList # << >>
  /\ isReviewComplete

\* queue holds the entries of input, each as often as input does.
IsPermutation(queue, input) ==
  /\ Len(queue) = Len(input)
  /\ \A i \in 1..Len(input) :
       Cardinality({j \in 1..Len(queue) : queue[j] = input[i]})
         = Cardinality({j \in 1..Len(input) : input[j] = input[i]})

\* The urgency class of spec 4.2 at the instant now: 0 Overdue, 1 DueToday,
\* 2 Future.
UrgencyClass(entry) ==
  IF entry.nextReviewAt < getStartOfDay(now) THEN 0
  ELSE IF entry.nextReviewAt > getEndOfDay(now) THEN 2
  ELSE 1

IsUrgencyOrdered(queue) ==
  \A i, j \in 1..Len(queue) :
    i < j =>
      \/ UrgencyClass(queue[i]) < UrgencyClass(queue[j])
      \/ /\ UrgencyClass(queue[i]) = UrgencyClass(queue[j])
         /\ queue[i].nextReviewAt <= queue[j].nextReviewAt

-----------------------------------------------------------------------------
(* Properties of the scheduler (spec 4.1) *)

\* t is the start of the local day that the instant now lies in.
IsStartOfToday(t) ==
  /\ (t + utcOffset(t)) % DAY_MS = 0
  /\ (t + utcOffset(t)) \div DAY_MS = (now + utcOffset(now)) \div DAY_MS

\* C10: the remember transition on an entry at stage s in 0..5 returns stage
\* s + 1, nextReviewAt = startOfDay(now) + interval[s + 1] days and status
\* learning, also for s = 5.
C10_RememberAdvancesStage ==
  (lastOp.name = "schedulerService.handleRemember"
   /\ words[1].reviewStage \in 0..5) =>
     /\ lastOp.ret.reviewStage = words[1].reviewStage + 1
     /\ IsStartOfToday(lastOp.ret.nextReviewAt
                       - REVIEW_INTERVALS[words[1].reviewStage + 1] * DAY_MS)
     /\ lastOp.ret.memoryStatus = "learning"

\* The remember transition took an entry from stage 5 to stage 6.
C10_Witness ==
  /\ lastOp.name = "schedulerService.handleRemember"
  /\ words[1].reviewStage = 5
  /\ lastOp.ret.reviewStage = 6
  /\ lastOp.ret.memoryStatus = "learning"
  /\ now > FirstInstant

\* The remember transition left a stage-6 entry as it was but for
\* lastReviewedAt.
UnchangedButReviewedAt(p, word) ==
  /\ p.id = word.id
  /\ p.reviewStage = word.reviewStage
  /\ p.nextReviewAt = word.nextReviewAt
  /\ p.memoryStatus = word.memoryStatus

\* C11: the remember transition on an entry at stage 6 returns stage 6,
\* status mastered and the entry's own nextReviewAt; applied to an entry that
\* is itself the result of that transition it changes nothing except
\* lastReviewedAt, which is the instant of the call.
C11_RememberAtSixIsTerminal ==
  (lastOp.name = "schedulerService.handleRemember"
   /\ words[1].reviewStage = 6) =>
     /\ lastOp.ret.reviewStage = 6
     /\ lastOp.ret.memoryStatus = "mastered"
     /\ lastOp.ret.nextReviewAt = words[1].nextReviewAt
     /\ lastOp.ret.lastReviewedAt = now
     /\ words[1].memoryStatus = "mastered" =>
          UnchangedButReviewedAt(lastOp.ret, words[1])

\* The transition was applied again, later, to the mastered entry that an
\* earlier application had produced.
C11_Witness ==
  /\ lastOp.name = "schedulerService.handleRemember"
  /\ words[1].reviewStage = 6
  /\ words[1].memoryStatus = "mastered"
  /\ words[1].lastReviewedAt # Undefined
  /\ lastOp.ret.lastReviewedAt > words[1].lastReviewedAt
  /\ UnchangedButReviewedAt(lastOp.ret, words[1])

\* C12: the forget transition on an entry at any stage and with any status
\* returns stage 1, nextReviewAt = startOfDay(now) + interval[1] days and
\* status learning.
C12_ForgetResetsToStageOne ==
  lastOp.name = "schedulerService.handleForget" =>
    /\ lastOp.ret.reviewStage = 1
    /\ IsStartOfToday(lastOp.ret.nextReviewAt - 1 * DAY_MS)
    /\ lastOp.ret.memoryStatus = "learning"
    /\ lastOp.ret.id = words[1].id

\* The forget transition was applied to a mastered entry at stage 6.
C12_Witness ==
  /\ lastOp.name = "schedulerService.handleForget"
  /\ words[1].reviewStage = 6
  /\ words[1].memoryStatus = "mastered"
  /\ words[1].lastReviewedAt # Undefined
  /\ lastOp.ret.reviewStage = 1

\* t is the first instant of a local day.
IsStartOfADay(t) == (t + utcOffset(t)) % DAY_MS = 0

\* The instants a and b lie in the same local day.
OnSameDay(a, b) ==
  (a + utcOffset(a)) \div DAY_MS = (b + utcOffset(b)) \div DAY_MS

\* The interval table of spec 4.1, in days.
IntervalDays(stage) ==
  CASE stage = 0 -> 1 [] stage = 1 -> 1 [] stage = 2 -> 2 [] stage = 3 -> 4
    [] stage = 4 -> 7 [] stage = 5 -> 15 [] stage = 6 -> 30

\* C13 as stated: calculateNextReview(stage, base) is the start of base's day
\* plus interval[stage] days of 24 hours, two bases on the same day give the
\* same result, and the nextReviewAt a stage-changing grading writes (stage
\* 1..6, base now) is the start of a day.
C13_NextReviewIsStartOfDay ==
  lastOp.name = "schedulerService.calculateNextReview" =>
    /\ IsStartOfADay(lastOp.ret[1] - IntervalDays(lastOp.before.stage) * DAY_MS)
    /\ OnSameDay(lastOp.ret[1] - IntervalDays(lastOp.before.stage) * DAY_MS,
                 lastOp.before.base1)
    /\ OnSameDay(lastOp.before.base1, lastOp.before.base2) =>
         lastOp.ret[1] = lastOp.ret[2]
    /\ (lastOp.before.stage >= 1 /\ lastOp.before.base1 = now) =>
         IsStartOfADay(lastOp.ret[1])

-----------------------------------------------------------------------------
(* Properties of the merge and of due selection (spec 4.2, 4.4) *)

\* No record of the progress list has the id of entry.
HasNoRecord(progress, entry) ==
  \A k \in 1..Len(progress) : progress[k].id # entry.id

C15_InitialReviewIsNextDay ==
  lastOp.name = "schedulerService.calculateInitialReview" =>
    lastOp.ret = parseDateString(lastOp.before) + DAY_MS

\* The index of entry in list.
PositionIn(list, entry) == CHOOSE k \in 1..Len(list) : list[k] = entry

\* C16: sortByUrgency returns a permutation of its input in which Overdue
\* entries precede DueToday entries, which precede Future entries,
\* nextReviewAt ascends inside each class, and entries with equal
\* nextReviewAt keep the order of the input.
C16_SortByUrgencyContract ==
  lastOp.name = "schedulerService.sortByUrgency" =>
    /\ IsPermutation(lastOp.ret, words)
    /\ IsUrgencyOrdered(lastOp.ret)
    /\ \A i, j \in 1..Len(words) :
         (i < j /\ words[i].nextReviewAt = words[j].nextReviewAt) =>
           PositionIn(lastOp.ret, words[i]) < PositionIn(lastOp.ret, words[j])

\* A list of a Future entry followed by two Overdue entries with the same
\* nextReviewAt was sorted on local day 2.
C16_Witness ==
  /\ lastOp.name = "schedulerService.sortByUrgency"
  /\ Len(words) = 3
  /\ UrgencyClass(words[1]) = 2
  /\ UrgencyClass(words[2]) = 0
  /\ words[2].nextReviewAt = words[3].nextReviewAt
  /\ lastOp.ret = << words[2], words[3], words[1] >>

\* The number of the local day that the instant t lies in.
DayOf(t) == (t + utcOffset(t)) \div DAY_MS

\* C17: getTodayReviewWords returns, in the order of the input, exactly the
\* entries that are not mastered and whose nextReviewAt is not after the end
\* of today.
C17_TodayReviewWordsSelection ==
  lastOp.name = "schedulerService.getTodayReviewWords" =>
    lastOp.ret =
      SelectSeq(words, LAMBDA e : /\ e.memoryStatus # "mastered"
                                  /\ DayOf(e.nextReviewAt) <= DayOf(now))

\* Of a mastered Overdue entry, a Future entry and an entry due at the last
\* instant of today, only the last was selected.
C17_Witness ==
  /\ lastOp.name = "schedulerService.getTodayReviewWords"
  /\ Len(words) = 3
  /\ words[1].memoryStatus = "mastered"
  /\ DayOf(words[1].nextReviewAt) < DayOf(now)
  /\ words[2].memoryStatus = "learning"
  /\ DayOf(words[2].nextReviewAt) > DayOf(now)
  /\ words[3].memoryStatus = "learning"
  /\ DayOf(words[3].nextReviewAt) = DayOf(now)
  /\ DayOf(words[3].nextReviewAt + 1) > DayOf(now)
  /\ lastOp.ret = << words[3] >>

-----------------------------------------------------------------------------
(* Properties of the persistence gateway (spec 4.5, 5) *)

\* The progress list and the stats in memory are those of the stored
\* snapshot, or load() finds no snapshot and they are the empty defaults.
MemoryIsStored ==
  IF progressService_load = NULL
  THEN /\ progressList = << >>
       /\ streakDays = 0
       /\ lastStudyDate = EmptyDate
       /\ dailyReviews = EmptyMap
  ELSE StoredIsCurrent(localStorage, progressList, streakDays, lastStudyDate,
                       dailyReviews)

ConformsToSchema(data) ==
  /\ {"version", "progress", "stats", "settings"} \subseteq DOMAIN data
  /\ \A i \in 1..Len(data.progress) :
       /\ {"id", "reviewStage", "nextReviewAt", "memoryStatus"}
            \subseteq DOMAIN data.progress[i]
       /\ data.progress[i].reviewStage \in 0..6
       /\ data.progress[i].memoryStatus \in {"new", "learning", "mastered"}
  /\ {"streakDays", "lastStudyDate", "dailyReviews"} \subseteq DOMAIN data.stats
  /\ "voiceType" \in DOMAIN data.settings
  /\ data.settings.voiceType \in {"en-US", "en-GB"}

\* C19 as stated: load() returns absent or a snapshot every field of which
\* conforms to the schema, the progress elements and settings.voiceType
\* included.
C19_LoadIsAbsentOrSchemaValid ==
  lastOp.name = "progressService.load" =>
    \/ lastOp.ret = NULL
    \/ ConformsToSchema(lastOp.ret)

\* The text parses and its data passes the schema check of load.
PassesSchemaCheck(text) ==
  /\ ~isNotJson(text)
  /\ isValidProgressData(deleteExportFields(JSON_parse(text)))

\* C20: importData on a text that does not parse or does not pass the schema
\* check of load returns success = false and leaves the stored snapshot as it
\* was; the stored snapshot changes only when the check passes and the save
\* succeeds, and then it is the imported data and success is true.
C20_ImportIsAllOrNothing ==
  [][lastOp'.name = "importData" =>
       /\ ~PassesSchemaCheck(lastOp'.before) =>
            /\ ~lastOp'.ret.success
            /\ localStorage' = localStorage
       /\ localStorage' # localStorage =>
            /\ PassesSchemaCheck(lastOp'.before)
            /\ storageAvailable
            /\ ~quotaExceeded
            /\ lastOp'.ret.success
       /\ lastOp'.ret.success =>
            /\ PassesSchemaCheck(lastOp'.before)
            /\ localStorage' # NULL
            /\ \A f \in {"version", "progress", "stats", "settings"} :
                 JSON_parse(localStorage')[f] = JSON_parse(lastOp'.before)[f]]_vars

\* An import of a text without stats.dailyReviews was refused and the stored
\* snapshot of the earlier run is still there.
C20_Witness ==
  /\ lastOp.name = "importData"
  /\ lastOp.before = JSON_stringify(withoutDailyReviews(OtherSnapshot))
  /\ ~lastOp.ret.success
  /\ storageAvailable
  /\ ~quotaExceeded
  /\ localStorage = JSON_stringify(StoredSnapshot)
  /\ progressList = StoredSnapshot.progress

-----------------------------------------------------------------------------
(* C21: the text that exportData() makes of a valid stored snapshot S, when *)
(* imported into an empty store whose storage is available and takes the    *)
(* write, is imported with success, and the snapshot stored then has the   *)
(* progress list and the stats of S and neither exportedAt nor             *)
(* exportVersion.                                                           *)

IsImportOfExport == lastOp.name = "paste" /\ lastOp'.name = "importData"

C21_ExportImportRoundTrip ==
  [][(IsImportOfExport /\ storageAvailable /\ ~quotaExceeded) =>
       /\ lastOp'.ret.success
       /\ localStorage' # NULL
       /\ JSON_parse(localStorage').progress = lastOp.before.progress
       /\ JSON_parse(localStorage').stats = lastOp.before.stats
       /\ "exportedAt" \notin DOMAIN JSON_parse(localStorage')
       /\ "exportVersion" \notin DOMAIN JSON_parse(localStorage')]_vars

\* A snapshot with a graded word has been exported and imported elsewhere.
C21_Witness ==
  /\ lastOp.name = "importData"
  /\ lastOp.ret.success
  /\ "exportedAt" \in DOMAIN JSON_parse(lastOp.before)
  /\ JSON_parse(lastOp.before).exportedAt = now
  /\ graded > 0
  /\ Len(progressList) > 0

\* C21 as stated, without the condition on the storage of the other store:
\* every import of an exported text into an empty store succeeds.
C21_ImportOfExportSucceeds ==
  [][IsImportOfExport => lastOp'.ret.success]_vars

-----------------------------------------------------------------------------
(* C22: save(snapshot) returns true or false and never throws: true after   *)
(* it has replaced the stored text by the text of the snapshot in one       *)
(* write, false when storage is unavailable or the write fails, and then    *)
(* the stored text is unchanged and load() returns what it returned before. *)

IsSave == lastOp'.name = "progressService.save"

C22_SaveReplacesOrLeaves ==
  [][IsSave =>
       /\ lastOp'.ret \in BOOLEAN
       /\ lastOp'.ret = (storageAvailable /\ ~quotaExceeded)
       /\ lastOp'.ret => /\ localStorage' = JSON_stringify(lastOp'.before)
                         /\ progressService_load' = lastOp'.before
       /\ ~lastOp'.ret => /\ localStorage' = localStorage
                          /\ progressService_load' = progressService_load]_vars

\* A write has failed on a full storage that holds a snapshot, which load()
\* still returns.
C22_Witness ==
  /\ lastOp.name = "progressService.save"
  /\ lastOp.ret = FALSE
  /\ storageAvailable
  /\ quotaExceeded
  /\ progressService_load # NULL
  /\ progressService_load # lastOp.before

-----------------------------------------------------------------------------
(* C23: while storage is unavailable, load() returns absent, save() and     *)
(* reset() return false, and no operation changes what is stored; a         *)
(* handleRemember or handleForget with a current word still puts the        *)
(* record of its transition into the progress list in memory, counts the    *)
(* review in the stats in memory and moves the cursor on by one.            *)

IsGrading ==
  /\ lastOp'.name \in {"handleRemember", "handleForget"}
  /\ currentWord # NULL

C23_SessionWorksInMemory ==
  [][~storageAvailable =>
       /\ localStorage' = localStorage
       /\ lastOp'.name = "progressService.load" => lastOp'.ret = NULL
       /\ lastOp'.name = "progressService.save" => lastOp'.ret = FALSE
       /\ lastOp'.name = "progressService.reset" => lastOp'.ret = FALSE
       /\ IsGrading =>
            /\ lastOp'.name = "handleRemember" =>
                 IsRememberOf(lastOp'.ret, currentWord)
            /\ lastOp'.name = "handleForget" =>
                 IsForgetOf(lastOp'.ret, currentWord)
            /\ IsListWith(progressList', progressList, lastOp'.ret)
            /\ countOf(dailyReviews', getTodayDateString)
                 = countOf(dailyReviews, getTodayDateString) + 1
            /\ todayReviewedCount' = countOf(dailyReviews', getTodayDateString)
            /\ lastStudyDate' = getTodayDateString
            /\ streakDays' >= 1
            /\ currentReviewIndex' = currentReviewIndex + 1]_vars

\* Without storage, and with a snapshot of an earlier run still stored, a
\* session has graded both words and is complete.
C23_Witness ==
  /\ ~storageAvailable
  /\ localStorage # NULL
  /\ lastOp.name \in {"handleRemember", "handleForget"}
  /\ lastOp.ret # NULL
  /\ Len(progressList) = 2
  /\ graded >= 2
  /\ isReviewComplete

-----------------------------------------------------------------------------
(* C24: after a reset() that returns true nothing is stored and load()      *)
(* returns absent; after a resetProgress() that succeeds the progress list, *)
(* streakDays, lastStudyDate, dailyReviews, the queue, the cursor and       *)
(* todayReviewedCount are at their empty defaults; after one that fails     *)
(* none of them, and nothing stored, has changed.                           *)

StoreIsEmpty ==
  /\ progressList = << >>
  /\ streakDays = 0
  /\ lastStudyDate = EmptyDate
  /\ dailyReviews = EmptyMap
  /\ reviewQueue = << >>
  /\ currentReviewIndex = 0
  /\ todayReviewedCount = 0

C24_ResetClearsOrLeaves ==
  [][/\ (lastOp'.name = "progressService.reset" /\ lastOp'.ret) =>
          progressService_load' = NULL
     /\ (lastOp'.name = "resetProgress" /\ lastOp'.ret) =>
          /\ StoreIsEmpty'
          /\ progressService_load' = NULL
     /\ (lastOp'.name = "resetProgress" /\ ~lastOp'.ret) =>
          UNCHANGED << progressList, streakDays, lastStudyDate, dailyReviews,
                       reviewQueue, currentReviewIndex, todayReviewedCount,
                       localStorage >>]_vars

\* resetProgress() has succeeded in the middle of a session that had graded
\* a word and stored the snapshot.
C24_Witness ==
  /\ lastOp.name = "resetProgress"
  /\ lastOp.before = "InProgress"
  /\ lastOp.ret
  /\ graded > 0
  /\ StoreIsEmpty

-----------------------------------------------------------------------------
(* C25: a grading on the day T sets streakDays to 1 when lastStudyDate is   *)
(* empty, leaves streakDays and lastStudyDate unchanged when lastStudyDate  *)
(* is T, raises streakDays by exactly 1 when T is the day after             *)
(* lastStudyDate, and sets streakDays to 1 for any other difference (a gap  *)
(* of two days or more, or T before lastStudyDate); in every case but the   *)
(* second lastStudyDate becomes T.                                          *)

IsUpdateWordProgress == lastOp'.name = "updateWordProgress"

\* The streak rule between the stats before and after a grading on day T.
IsStreakUpdate(after, before, T) ==
  /\ before.lastStudyDate = EmptyDate => after.streakDays = 1
  /\ before.lastStudyDate = T => after.streakDays = before.streakDays
  /\ (before.lastStudyDate # EmptyDate /\ T = before.lastStudyDate + 1) =>
       after.streakDays = before.streakDays + 1
  /\ (before.lastStudyDate # EmptyDate /\ T >= before.lastStudyDate + 2) =>
       after.streakDays = 1
  /\ (before.lastStudyDate # EmptyDate /\ T < before.lastStudyDate) =>
       after.streakDays = 1
  /\ after.lastStudyDate = T

\* The stats of what load() returned, the defaults if it returned nothing.
StatsOf(data) ==
  IF data = NULL THEN createDefaultProgressData.stats ELSE data.stats

C25_StreakUpdate ==
  [][/\ IsGrading =>
          IsStreakUpdate(currentStats', currentStats, getTodayDateString)
     /\ (IsUpdateWordProgress /\ lastOp'.ret) =>
          IsStreakUpdate(StatsOf(progressService_load'),
                         StatsOf(lastOp'.before.data),
                         getTodayDateString)]_vars

\* A streak of two days has been broken by a grading after a gap.
C25_Witness ==
  /\ lastOp.name \in {"handleRemember", "handleForget"}
  /\ lastOp.ret # NULL
  /\ streakDays = 1
  /\ lastStudyDate = getTodayDateString
  /\ (getTodayDateString - 2) \in DOMAIN dailyReviews
  /\ (getTodayDateString - 3) \in DOMAIN dailyReviews
  /\ (getTodayDateString - 1) \notin DOMAIN dailyReviews

-----------------------------------------------------------------------------
(* C30: updateWordProgress(id, p), when its write succeeds: with a record   *)
(* for id stored, p's fields are merged over that record, the id is kept,   *)
(* and the number and the other records are unchanged; with none stored and *)
(* p a complete record, exactly one record, with that id and p's fields, is *)
(* appended. With none stored and p incomplete it returns false. Whenever   *)
(* it returns false, also because storage is unavailable or the write       *)
(* fails, the stored text is unchanged.                                     *)

\* The progress list of what load() returned.
ListOf(data) == IF data = NULL THEN << >> ELSE data.progress

HasRecord(list, id) ==
  \E i \in 1..Len(list) : "id" \in DOMAIN list[i] /\ list[i].id = id

\* record is old with p's fields over it and the id id
IsMergeOf(record, old, p, id) ==
  /\ DOMAIN record = DOMAIN old \cup DOMAIN p \cup {"id"}
  /\ record.id = id
  /\ \A f \in DOMAIN p \ {"id"} : record[f] = p[f]
  /\ \A f \in DOMAIN old \ (DOMAIN p \cup {"id"}) : record[f] = old[f]

\* after is before with the record of id merged with p, or p appended
IsUpdateOf(after, before, id, p) ==
  IF HasRecord(before, id)
  THEN /\ Len(after) = Len(before)
       /\ \E i \in 1..Len(before) :
            /\ before[i].id = id
            /\ IsMergeOf(after[i], before[i], p, id)
            /\ \A j \in 1..Len(before) : j # i => after[j] = before[j]
  ELSE /\ Len(after) = Len(before) + 1
       /\ SubSeq(after, 1, Len(before)) = before
       /\ IsMergeOf(after[Len(after)], p, p, id)

C30_UpdateWordProgress ==
  [][IsUpdateWordProgress =>
       LET id == lastOp'.before.id
           p == lastOp'.before.progress
           before == ListOf(lastOp'.before.data)
       IN /\ lastOp'.ret =
               /\ HasRecord(before, id) \/ isCompleteWordProgress(p)
               /\ storageAvailable
               /\ ~quotaExceeded
          /\ lastOp'.ret =>
               IsUpdateOf(ListOf(progressService_load'), before, id, p)
          /\ ~lastOp'.ret => localStorage' = localStorage]_vars

\* Fields with the id of another word have been merged over a stored record.
C30_Witness ==
  /\ lastOp.name = "updateWordProgress"
  /\ lastOp.ret
  /\ HasRecord(ListOf(lastOp.before.data), lastOp.before.id)
  /\ "id" \in DOMAIN lastOp.before.progress
  /\ lastOp.before.progress.id # lastOp.before.id
  /\ Len(ListOf(progressService_load)) = 2

\* C30 as stated, whatever becomes of the write: a stored record is merged
\* and a complete record is appended by every call.
C30_UpdatesWhateverTheWrite ==
  [][IsUpdateWordProgress =>
       LET id == lastOp'.before.id
           p == lastOp'.before.progress
           before == ListOf(lastOp'.before.data)
       IN (HasRecord(before, id) \/ isCompleteWordProgress(p)) =>
            IsUpdateOf(ListOf(progressService_load'), before, id, p)]_vars

-----------------------------------------------------------------------------------------------------------------------------------------------------
(* C26: every grading that returns a record raises the count of today's     *)
(* date by exactly 1 and leaves the count of every other date unchanged,    *)
(* and no operation of the store makes the count of a date decrease or      *)
(* disappear, except a reset that succeeds. (A step that imports a snapshot *)
(* through the service and loads it is not held against the claim.)         *)

\* Some date's count is lower after the step, or gone.
CountDecreases ==
  \E d \in DOMAIN dailyReviews :
    \/ d \notin DOMAIN dailyReviews'
    \/ dailyReviews'[d] < dailyReviews[d]

\* The step is a resetProgress() that succeeded.
IsFullReset ==
  /\ storageAvailable
  /\ localStorage' = NULL
  /\ StoreIsEmpty'

IsImport == lastOp'.name = "importData" /\ lastOp'.ret.success

C26_DailyCountsAppendOnly ==
  [][/\ IsGrading =>
          /\ DOMAIN dailyReviews' = DOMAIN dailyReviews \cup {getTodayDateString}
          /\ dailyReviews'[getTodayDateString]
               = countOf(dailyReviews, getTodayDateString) + 1
          /\ \A d \in DOMAIN dailyReviews \ {getTodayDateString} :
               dailyReviews'[d] = dailyReviews[d]
     /\ (CountDecreases /\ ~IsImport) => IsFullReset]_vars

-----------------------------------------------------------------------------
(* C27: the first grading of an id that has no record appends its record to *)
(* the progress list, a later grading of that id replaces the record where  *)
(* it is, and once an id has a record in the progress list it has one after *)
(* every operation that is not a reset.                                     *)

\* An id that has a record before the step has none after it.
RecordDisappears ==
  \E i \in 1..Len(progressList) :
    \A j \in 1..Len(progressList') : progressList'[j].id # progressList[i].id

C27_RecordsAreKept ==
  [][/\ IsGrading => IsListWith(progressList', progressList, lastOp'.ret)
     /\ RecordDisappears => IsFullReset]_vars

-----------------------------------------------------------------------------
(* C28: mergeWithProgress(catalog, progress) yields one entry per catalog   *)
(* entry, in catalog order and with the catalog's id, word, meaning and     *)
(* date; an entry whose id has a record in progress has the stage,          *)
(* nextReviewAt, status and lastReviewedAt of a record with that id, and    *)
(* every other entry (all of them when progress is empty) is at stage 0,    *)
(* status new, with nextReviewAt at the start of its introduction day and   *)
(* no lastReviewedAt.                                                       *)

\* entry has the four progress fields of record.
TakenFrom(entry, record) ==
  /\ entry.reviewStage = record.reviewStage
  /\ entry.nextReviewAt = record.nextReviewAt
  /\ entry.memoryStatus = record.memoryStatus
  /\ entry.lastReviewedAt =
       IF "lastReviewedAt" \in DOMAIN record THEN record.lastReviewedAt
       ELSE Undefined

-----------------------------------------------------------------------------
(* C29: no record that a grading produces has status new; a record that a   *)
(* grading produces with status mastered has stage 6 and comes from a       *)
(* remember of an entry that was at stage 6 already; so an entry that       *)
(* starts at stage 0 is mastered only after at least 7 gradings of which    *)
(* the last 6 are remembers: 7 remembers if it was never forgotten, and at  *)
(* least 6 remembers in a row after a forget, which puts it at stage 1.     *)

IsEntryGrading ==
  lastOp.name \in {"schedulerService.handleRemember",
                   "schedulerService.handleForget"}

C29_StatusFollowsHistory ==
  /\ IsEntryGrading =>
       /\ lastOp.ret.memoryStatus # "new"
       /\ lastOp.ret.memoryStatus = "mastered" =>
            /\ lastOp.ret.reviewStage = 6
            /\ lastOp.name = "schedulerService.handleRemember"
            /\ lastOp.before.reviewStage = 6
  /\ graded > 0 => words[1].memoryStatus # "new"
  /\ words[1].memoryStatus = "mastered" =>
       /\ words[1].reviewStage = 6
       /\ graded >= 7
       /\ hist.run >= 6
       /\ hist.forgets = 0 => hist.remembers >= 7

\* The entry has been mastered by exactly seven remembers and no forget.
C29_Witness ==
  /\ IsEntryGrading
  /\ words[1].memoryStatus = "mastered"
  /\ hist.remembers = 7
  /\ hist.forgets = 0
  /\ graded = 7
  /\ lastOp.before.memoryStatus = "learning"

\* C29 as stated: a mastered entry that started at stage 0 has had at least
\* 7 remembers with no forget in between.
C29_SevenRemembersInARow ==
  words[1].memoryStatus = "mastered" => hist.run >= 7

-----------------------------------------------------------------------------
(* Study from an empty store: nothing is stored and nothing is in memory at *)
(* the start; sessions are started by the review page and graded on         *)
(* consecutive days, and the progress is reset in between. The storage      *)
(* works, is unavailable or is full throughout.                             *)

InitStudy ==
  /\ now = FirstInstant
  /\ tz \in TimeZones
  /\ storageAvailable \in BOOLEAN
  /\ quotaExceeded \in BOOLEAN
  /\ localStorage = NULL
  /\ progressList = << >>
  /\ streakDays = 0
  /\ lastStudyDate = EmptyDate
  /\ dailyReviews = EmptyMap
  /\ reviewQueue = << >>
  /\ currentReviewIndex = 0
  /\ todayReviewedCount = 0
  /\ words = << >>
  /\ lastOp = otherOp
  /\ hist = newSession(<< >>)
  /\ graded = 0

NextStudy ==
  \/ TickDay
  \/ reviewMounted
  \/ continueReview
  \/ handleRemember
  \/ handleForget
  \/ applyResetProgress

SpecStudy == InitStudy /\ [][NextStudy]_vars

-----------------------------------------------------------------------------
(* C31: when the process stops inside handleRemember or handleForget, what  *)
(* is stored is either what was stored before the grading or the complete   *)
(* snapshot of after it: the list with the record of the grading, today's   *)
(* count raised by one and the streak updated, all three together; before   *)
(* the save has run it is the former, so that at most this one grading is   *)
(* lost.                                                                    *)

IsStopped == lastOp'.name = "stopped"

\* storage holds the snapshot of after the grading with result record.
IsPostGrading(storage, record) ==
  /\ storage # NULL
  /\ IsListWith(JSON_parse(storage).progress, progressList, record)
  /\ IsStreakUpdate(JSON_parse(storage).stats, currentStats,
                    getTodayDateString)
  /\ DOMAIN JSON_parse(storage).stats.dailyReviews
       = DOMAIN dailyReviews \cup {getTodayDateString}
  /\ \A d \in DOMAIN JSON_parse(storage).stats.dailyReviews :
       JSON_parse(storage).stats.dailyReviews[d]
         = countOf(dailyReviews, d) + (IF d = getTodayDateString THEN 1 ELSE 0)

C31_StoredIsPreOrPost ==
  [][IsStopped =>
       /\ \/ localStorage' = localStorage
          \/ IsPostGrading(localStorage', lastOp'.ret.record)
       /\ lastOp'.ret.steps < 3 => localStorage' = localStorage
       /\ (lastOp'.ret.steps = 3 /\ storageAvailable /\ ~quotaExceeded) =>
            IsPostGrading(localStorage', lastOp'.ret.record)]_vars

\* The process has stopped between the update of the stats and the save of
\* the second grading of a session: the first grading is what is stored.
C31_Witness ==
  /\ lastOp.name = "stopped"
  /\ lastOp.ret.steps = 2
  /\ localStorage # NULL
  /\ progressService_load # NULL
  /\ countOf(progressService_load.stats.dailyReviews, getTodayDateString) = 1
  /\ graded = 2

-----------------------------------------------------------------------------
(* C32: no entry with memoryStatus mastered is ever the current word of a   *)
(* session, whichever caller has started it.                                *)

C32_NoMasteredCurrentWord ==
  currentWord # NULL => currentWord.memoryStatus # "mastered"

IsMastered(entry) == entry.memoryStatus = "mastered"

DueCallers == {"Home.startReview", "Review.onMounted"}

\* C32, as it holds: the queue that startReview builds for the home page or
\* for the mount of the review page has no mastered entry, the one it builds
\* for continueReview and selectDate has all entries of its input, mastered
\* ones included, and no operation of the session puts a mastered entry
\* into the queue: an entry pushed by handleForget is learning.
C32_MasteredOnlyFromAllWords ==
  [][/\ (lastOp'.name = "startReview" /\ lastOp'.before \in DueCallers) =>
         \A i \in DOMAIN reviewQueue' : ~IsMastered(reviewQueue'[i])
     /\ (lastOp'.name = "startReview" /\ lastOp'.before \notin DueCallers) =>
         /\ IsPermutation(reviewQueue',
               IF lastOp'.before = "Review.continueReview"
                  \/ Len(reviewQueue') = Len(words')
               THEN words'
               ELSE SelectSeq(words',
                      LAMBDA w : w.addedDate = reviewQueue'[1].addedDate))
     /\ lastOp'.name # "startReview" =>
         \A i \in DOMAIN reviewQueue' :
           IsMastered(reviewQueue'[i]) =>
             i \in DOMAIN reviewQueue /\ reviewQueue[i] = reviewQueue'[i]]_vars

\* The review page has mounted and started a session of the due words while
\* a word of the catalog is mastered.
C32_Witness ==
  /\ lastOp.name = "startReview"
  /\ lastOp.before = "Review.onMounted"
  /\ \E i \in DOMAIN words : IsMastered(words[i])
  /\ currentWord # NULL
  /\ ~IsMastered(currentWord)

-----------------------------------------------------------------------------
(* C33: the id of an entry is made of its date and its word, so entries of  *)
(* the same word on the same date have the same id; when the progress list  *)
(* holds several records with one id, mergeWithProgress gives every catalog *)
(* entry with that id the progress of the last of them in list order.       *)

\* The positions of the records of progress with this id.
RecordsOf(progress, id) ==
  {k \in DOMAIN progress : fieldOf(progress[k], "id") = id}

Last(positions) == CHOOSE k \in positions : \A j \in positions : j <= k

C33_LastRecordWins ==
  lastOp.name = "mergeWithProgress" =>
    LET ws == lastOp.before.words
        progress == lastOp.before.progress
        entries == lastOp.ret
    IN /\ Len(entries) = Len(ws)
       /\ \A i \in DOMAIN ws :
            /\ entries[i].id = << ws[i].date, ws[i].raw.word >>
            /\ \A j \in DOMAIN ws :
                 (ws[j].date = ws[i].date /\ ws[j].raw.word = ws[i].raw.word)
                   => entries[j].id = entries[i].id
            /\ RecordsOf(progress, entries[i].id) # {} =>
                 TakenFrom(entries[i],
                           progress[Last(RecordsOf(progress, entries[i].id))])

\* A list with two records of word a that differ, around a record of word
\* b, has been merged into a catalog that lists word a twice: both entries
\* of word a have the stage of the last record.
C33_Witness ==
  /\ lastOp.name = "mergeWithProgress"
  /\ Len(lastOp.before.words) = 3
  /\ Len(lastOp.before.progress) = 3
  /\ Cardinality(RecordsOf(lastOp.before.progress, lastOp.ret[1].id)) = 2
  /\ lastOp.ret[1].reviewStage = 1
  /\ lastOp.ret[3].reviewStage = 1
  /\ lastOp.ret[2].reviewStage = 3

-----------------------------------------------------------------------------
(* C34: whenever an entry is the current word of a session and the progress *)
(* list holds a record with its id, the reviewStage and the memoryStatus of *)
(* the entry are those of that record.                                      *)

C34_CurrentWordIsFresh ==
  currentWord # NULL =>
    \A k \in DOMAIN progressList :
      progressList[k].id = currentWord.id =>
        /\ currentWord.reviewStage = progressList[k].reviewStage
        /\ currentWord.memoryStatus = progressList[k].memoryStatus

-----------------------------------------------------------------------------
(* C35: a session that is in progress is eventually complete when the user  *)
(* goes on remembering or skipping and forgets only finitely often: what    *)
(* remains, the length of the queue minus the cursor, is never negative, is *)
(* left as it is by a forget and goes down by exactly 1 with a remember or  *)
(* a skip of a current word.                                                *)

remaining == Len(reviewQueue) - currentReviewIndex

C35_SessionCompletes ==
  /\ (sessionState = "InProgress") ~> (sessionState = "Complete")
  /\ [](remaining >= 0)
  /\ [][/\ (lastOp'.name = "handleForget" /\ currentWord # NULL) =>
             remaining' = remaining
        /\ (lastOp'.name = "handleRemember" /\ currentWord # NULL) =>
             remaining' = remaining - 1
        /\ lastOp'.name = "skipCurrentWord" =>
             remaining' = IF hasMoreWords THEN remaining - 1
                          ELSE remaining]_vars

\* A session of two words is complete after a forget, a skip and remembers.
C35_Witness ==
  /\ sessionState = "Complete"
  /\ hist.n0 = 2
  /\ hist.forgets >= 1
  /\ hist.skipped
  /\ hist.gradings > hist.forgets

-----------------------------------------------------------------------------
(* C36: starting from progress lists with pairwise distinct ids, after any  *)
(* sequence of gradings the progress list in memory and the stored one hold *)
(* at most one record per id.                                               *)

DistinctIds(list) ==
  \A j, k \in DOMAIN list : list[j].id = list[k].id => j = k

C36_OneRecordPerId ==
  /\ DistinctIds(progressList)
  /\ progressService_load # NULL => DistinctIds(progressService_load.progress)

\* Both words have been graded, one of them twice, and the list of two
\* records is stored.
C36_Witness ==
  /\ graded >= 3
  /\ Len(progressList) = 2
  /\ progressService_load # NULL
  /\ progressService_load.progress = progressList
  /\ lastOp.name \in {"handleRemember", "handleForget"}

-----------------------------------------------------------------------------
(* C37: a grading does not change the stored settings: when the stored      *)
(* snapshot is valid before handleRemember or handleForget, the snapshot    *)
(* stored after it, written by the grading or left as it was, has the       *)
(* settings that were stored before.                                        *)

C37_GradingKeepsSettings ==
  [][(IsGrading /\ progressService_load # NULL) =>
       /\ progressService_load' # NULL
       /\ progressService_load'.settings = progressService_load.settings]_vars

\* A grading has written a snapshot over one whose voiceType is not the
\* default: the list is the graded one and the voiceType is still en-GB.
C37_Witness ==
  /\ lastOp.name \in {"handleRemember", "handleForget"}
  /\ lastOp.ret # NULL
  /\ progressService_load # NULL
  /\ progressService_load.progress = progressList
  /\ progressService_load.stats.lastStudyDate = getTodayDateString
  /\ progressService_load.settings = [voiceType |-> "en-GB"]
  /\ DEFAULT_SETTINGS # [voiceType |-> "en-GB"]

-----------------------------------------------------------------------------
(* C38: skipCurrentWord moves the cursor on by exactly 1 when the session   *)
(* is in progress and leaves it otherwise; either way the progress list,    *)
(* the streak, lastStudyDate, the daily counts, the queue and what is       *)
(* stored stay as they are, and the cursor does not pass the length of the  *)
(* queue.                                                                   *)

C38_SkipMovesOnlyTheCursor ==
  [][lastOp'.name = "skipCurrentWord" =>
       /\ currentReviewIndex' =
            IF sessionState = "InProgress" THEN currentReviewIndex + 1
            ELSE currentReviewIndex
       /\ currentReviewIndex' <= Len(reviewQueue')
       /\ UNCHANGED << progressList, streakDays, lastStudyDate, dailyReviews,
                       todayReviewedCount, reviewQueue, localStorage,
                       words >>]_vars

\* The last word of a session with graded words has been skipped, and then
\* skipCurrentWord was called once more on the complete session.
C38_Witness ==
  /\ lastOp.name = "skipCurrentWord"
  /\ lastOp.before = "Complete"
  /\ hist.skipped
  /\ hist.gradings >= 1
  /\ Len(progressList) >= 1
  /\ currentReviewIndex = Len(reviewQueue)

-----------------------------------------------------------------------------
(* C39: after any gradings and resets from an empty store, lastStudyDate is *)
(* empty exactly when streakDays is 0; when it is not empty, streakDays is  *)
(* at least 1 and the count of lastStudyDate in dailyReviews is at least 1; *)
(* and it is the date of the most recent grading: every grading assigns it  *)
(* today's date, and nothing else gives it a date.                          *)

C39_StreakAndLastStudyDate ==
  /\ [](/\ lastStudyDate = EmptyDate <=> streakDays = 0
        /\ lastStudyDate # EmptyDate =>
             /\ streakDays >= 1
             /\ countOf(dailyReviews, lastStudyDate) >= 1)
  /\ [][/\ IsGrading => lastStudyDate' = getTodayDateString
        /\ (lastStudyDate' # lastStudyDate /\ ~IsGrading) =>
             lastStudyDate' = EmptyDate]_vars

\* Words have been graded on two consecutive days: the streak is 2 and
\* lastStudyDate is the second day.
C39_Witness ==
  /\ lastOp.name \in {"handleRemember", "handleForget"}
  /\ lastOp.ret # NULL
  /\ streakDays = 2
  /\ lastStudyDate = getTodayDateString
  /\ countOf(dailyReviews, lastStudyDate - 1) >= 1
  /\ countOf(dailyReviews, lastStudyDate) >= 1

====
